---------------------------- MODULE Spec2Model ----------------------------
(***************************************************************************)
(* A model of The-Dev-Terminal's core: the colour model and screen grid    *)
(* (crates/core/src/grid.rs), the scrollback buffer (scrollback.rs), the   *)
(* control-sequence interpreter (vt.rs, a vte::Perform implementation      *)
(* driven by a process-wide vte::Parser), and the PTY reader pipeline      *)
(* (pty.rs, apps/terminal/src/main.rs).                                    *)
(*                                                                         *)
(* Indices are 0-based as in the source; a Vec is a TLA+ sequence, so the  *)
(* element with source index i is seq[i + 1].  A Rust panic (index out of  *)
(* bounds, slice out of range) is recorded in the grid's ghost field       *)
(* panicked; a panicked grid is never touched again.  An unsigned          *)
(* subtraction below zero (cols - 1 or rows - 1 on a zero dimension) is    *)
(* recorded the same way: it panics where overflow checks are compiled in  *)
(* and wraps to usize::MAX where they are not.                             *)
(***************************************************************************)
EXTENDS Integers, Sequences, FiniteSets, TLC

VARIABLES
    g,                        \* the Grid behind Arc<Mutex<Grid>>
    parser,                   \* the static PARSER of advance_bytes_with_bracketed
    bracketed_paste_enabled,  \* the shared AtomicBool
    nfed,                     \* ghost: number of grid-level events so far
    pushed,                   \* ghost: lines given to push_line since the last clear
    os_read,                  \* number of chunks the reader thread has read from the OS
    reader,                   \* reader thread: [pc, data]
    chan,                     \* the unbounded mpsc channel (tx -> pty_rx)
    fwd,                      \* forwarding thread of spawn_pty_reader: [pc, data]
    evq,                      \* winit's queue of UserEvent::PtyData events
    loop_alive,               \* the event loop has not exited
    grid_lock,                \* the grid mutex: "free" or "apply"
    ev_pc,                    \* PtyData handler: "idle", "apply" or "snapshot"
    applying,                 \* PtyData handler: <<chunk, index>> of the bytes still to apply
    applied,                  \* ghost: <<chunk, index>> of every byte applied to the grid
    ev_snap,                  \* ghost: Len(applied) at the handler's own snapshot read
    snap,                     \* ghost: Len(applied) at the last redraw snapshot read
    pty_out,                  \* the bytes handed to PtyHandle::write, in order
    pty_size,                 \* the PtySize the PTY master was last given
    scroll,                   \* the ScrollState behind Arc<Mutex<ScrollState>>
    handler,                  \* event-loop thread: the handler it is in and the guards it holds
    writers                   \* PtyHandle::write: the writer mutex and the calling threads

gridVars == <<g, parser, bracketed_paste_enabled, nfed, pushed>>
ptyVars  == <<os_read, reader, chan, fwd, evq, loop_alive, grid_lock, ev_pc,
              applying, applied, ev_snap, snap>>
uiVars   == <<scroll, handler, writers>>
ioVars   == <<pty_out, pty_size, uiVars>>
vars == <<gridVars, ptyVars, ioVars>>

---------------------------------------------------------------------------
(* Bounds of the model.                                                    *)

MaxCols  == 3
MaxRows  == 2
MaxFeeds == 2
MaxSplitFeeds == 2
MaxCap   == 2
MaxPush  == 4
MaxScroll == 3
MaxChunks == 3
BytesPerChunk == 2
MaxSubrow == 4
MaxFrames == 2
MaxCalls == 2

Min(a, b) == IF a < b THEN a ELSE b
SatSub(a, b) == IF a > b THEN a - b ELSE 0

---------------------------------------------------------------------------
(* Colour model: grid.rs, struct Color.                                    *)

BLACK          == <<0, 0, 0>>
RED            == <<205, 49, 49>>
GREEN          == <<13, 188, 121>>
YELLOW         == <<229, 229, 16>>
BLUE           == <<36, 114, 200>>
MAGENTA        == <<188, 63, 188>>
CYAN           == <<17, 168, 205>>
WHITE          == <<229, 229, 229>>
BRIGHT_BLACK   == <<102, 102, 102>>
BRIGHT_RED     == <<241, 76, 76>>
BRIGHT_GREEN   == <<35, 209, 139>>
BRIGHT_YELLOW  == <<245, 245, 67>>
BRIGHT_BLUE    == <<59, 142, 234>>
BRIGHT_MAGENTA == <<214, 112, 214>>
BRIGHT_CYAN    == <<41, 184, 219>>
BRIGHT_WHITE   == <<255, 255, 255>>

U8(n) == n % 256

BaseColors ==
    <<BLACK, RED, GREEN, YELLOW, BLUE, MAGENTA, CYAN, WHITE,
      BRIGHT_BLACK, BRIGHT_RED, BRIGHT_GREEN, BRIGHT_YELLOW,
      BRIGHT_BLUE, BRIGHT_MAGENTA, BRIGHT_CYAN, BRIGHT_WHITE>>

(* Mutant of from_ansi: a cube step of 52 and a gray step of 11, which do  *)
(* not fit in eight bits for the last level.                               *)
from_ansi_wide_steps(n) ==
    IF n \in 0..15 THEN BaseColors[n + 1]
    ELSE IF n \in 16..231 THEN
        LET idx == U8(n - 16) IN
        <<U8((idx \div 36) * 52), U8(((idx \div 6) % 6) * 52), U8((idx % 6) * 52)>>
    ELSE
        LET gray == U8(8 + U8(U8(n - 232) * 11)) IN <<gray, gray, gray>>

from_ansi(n) ==
    IF n \in 0..15 THEN BaseColors[n + 1]
    ELSE IF n \in 16..231 THEN
        LET idx == U8(n - 16) IN
        <<U8((idx \div 36) * 51), U8(((idx \div 6) % 6) * 51), U8((idx % 6) * 51)>>
    ELSE
        LET gray == U8(8 + U8(U8(n - 232) * 10)) IN <<gray, gray, gray>>

ColorDefault == WHITE

(* #[derive(Default)] on Cell: every field takes its type's default, so    *)
(* both fg and bg are Color::default().                                    *)
CellDefault ==
    [ch |-> 0, fg |-> ColorDefault, bg |-> ColorDefault,
     bold |-> FALSE, italic |-> FALSE, underline |-> FALSE]

---------------------------------------------------------------------------
(* Scrollback buffer: scrollback.rs.  lines[1] is the front (oldest).      *)

ScrollbackCapacity == 10000

ScrollbackNew(max_lines) ==
    [lines |-> <<>>, max_lines |-> max_lines, scroll_offset |-> 0]

(* Mutant of push_line: evicts only once the buffer is over capacity.      *)
push_line_off_by_one(sb, line) ==
    LET popped == IF Len(sb.lines) > sb.max_lines /\ Len(sb.lines) > 0
                  THEN Tail(sb.lines) ELSE sb.lines
    IN [sb EXCEPT !.lines = Append(popped, line),
                  !.scroll_offset = IF @ > 0 THEN @ + 1 ELSE @]

push_line(sb, line) ==
    LET popped == IF Len(sb.lines) >= sb.max_lines /\ Len(sb.lines) > 0
                  THEN Tail(sb.lines) ELSE sb.lines
    IN [sb EXCEPT !.lines = Append(popped, line),
                  !.scroll_offset = IF @ > 0 THEN @ + 1 ELSE @]

(* get_visible_lines(viewport_height): lines.range(start..end).            *)
get_visible_lines(sb, viewport_height) ==
    LET total_lines == Len(sb.lines) IN
    IF total_lines = 0 THEN <<>>
    ELSE LET start == IF sb.scroll_offset >= total_lines THEN 0
                      ELSE total_lines - sb.scroll_offset
                           - Min(viewport_height, total_lines - sb.scroll_offset)
             end == Min(start + viewport_height, total_lines)
         IN SubSeq(sb.lines, start + 1, end)

(* Mutant of sb_scroll_up: the offset is not clamped to the length.        *)
sb_scroll_up_unclamped(sb, n) ==
    [sb EXCEPT !.scroll_offset = sb.scroll_offset + n]

sb_scroll_up(sb, n) ==
    [sb EXCEPT !.scroll_offset = Min(sb.scroll_offset + n, Len(sb.lines))]

sb_scroll_down(sb, n) ==
    [sb EXCEPT !.scroll_offset = SatSub(sb.scroll_offset, n)]

sb_scroll_to_top(sb) == [sb EXCEPT !.scroll_offset = Len(sb.lines)]

sb_scroll_to_bottom(sb) == [sb EXCEPT !.scroll_offset = 0]

sb_page_up(sb, viewport_height) == sb_scroll_up(sb, viewport_height)

sb_page_down(sb, viewport_height) == sb_scroll_down(sb, viewport_height)

sb_clear(sb) == [sb EXCEPT !.lines = <<>>, !.scroll_offset = 0]

---------------------------------------------------------------------------
(* Screen grid: grid.rs, struct Grid.                                      *)

GridNew(cols, rows) ==
    [cols |-> cols, rows |-> rows,
     cells |-> [i \in 1..(cols * rows) |-> CellDefault],
     x |-> 0, y |-> 0,
     scrollback |-> ScrollbackNew(ScrollbackCapacity),
     current_fg |-> ColorDefault, current_bg |-> BLACK,
     current_bold |-> FALSE, current_italic |-> FALSE, current_underline |-> FALSE,
     panicked |-> FALSE]

(* cells[start..end] = Cell::default(), the slice form used by the clear_* *)
(* functions: panics when start > end or end > len.                        *)
FillRange(gr, start, end) ==
    IF start > end \/ end > Len(gr.cells)
    THEN [gr EXCEPT !.panicked = TRUE]
    ELSE [gr EXCEPT !.cells = [i \in 1..Len(gr.cells) |->
                                  IF i - 1 >= start /\ i - 1 < end
                                  THEN CellDefault ELSE gr.cells[i]]]

clear_all(gr) ==
    [gr EXCEPT !.cells = [i \in 1..Len(gr.cells) |-> CellDefault]]

clear_line(gr, row0) ==
    LET row   == Min(row0, SatSub(gr.rows, 1))
        start == row * gr.cols
    IN FillRange(gr, start, start + gr.cols)

clear_eol_from_cursor(gr) ==
    LET row   == Min(gr.y, SatSub(gr.rows, 1))
        start == row * gr.cols + Min(gr.x, SatSub(gr.cols, 1))
    IN FillRange(gr, start, row * gr.cols + gr.cols)

clear_bol_to_cursor(gr) ==
    LET row == Min(gr.y, SatSub(gr.rows, 1))
    IN FillRange(gr, row * gr.cols,
                 row * gr.cols + Min(gr.x, SatSub(gr.cols, 1)) + 1)

(* Mutant of cr: the column is kept.                                       *)
cr_keeps_column(gr) == gr

cr(gr) == [gr EXCEPT !.x = 0]

(* UnicodeWidthChar::width(ch).unwrap_or(1).max(1).min(2): 2 for the wide  *)
(* (CJK ideograph) characters, 1 for everything else the model prints.     *)
IsWide(ch) == ch >= 19968 /\ ch <= 40959
CharWidth(ch) == IF IsWide(ch) THEN 2 ELSE 1


(* Mutant of WriteCell: the character is stored with default attributes.   *)
WriteCell_default_attributes(gr, idx, ch) ==
    IF idx >= Len(gr.cells)
    THEN [gr EXCEPT !.panicked = TRUE]
    ELSE [gr EXCEPT !.cells[idx + 1] = [CellDefault EXCEPT !.ch = ch]]

(* self.cells[idx] = <ch with the current attributes>; an index past the   *)
(* end of the Vec panics.                                                  *)
WriteCell(gr, idx, ch) ==
    IF idx >= Len(gr.cells)
    THEN [gr EXCEPT !.panicked = TRUE]
    ELSE [gr EXCEPT !.cells[idx + 1] =
              [ch |-> ch, fg |-> gr.current_fg, bg |-> gr.current_bg,
               bold |-> gr.current_bold, italic |-> gr.current_italic,
               underline |-> gr.current_underline]]

(* Vec::rotate_left(mid): element i of the result is element i + mid (mod  *)
(* len) of the original; panics when mid > len.                            *)
RotateLeft(cells, mid) ==
    [i \in 1..Len(cells) |-> cells[((i - 1 + mid) % Len(cells)) + 1]]

(* Mutant of lf: scrolls by rotating and forgets to clear the bottom row.  *)
lf_no_clear(gr) ==
    IF gr.y + 1 < gr.rows
    THEN [gr EXCEPT !.y = gr.y + 1]
    ELSE IF gr.cols > Len(gr.cells) \/ gr.rows = 0
    THEN [gr EXCEPT !.panicked = TRUE]
    ELSE
        LET line == [c \in 1..gr.cols |-> gr.cells[c]]
        IN [gr EXCEPT !.scrollback = push_line(gr.scrollback, line),
                      !.cells = RotateLeft(gr.cells, gr.cols)]

lf(gr) ==
    IF gr.y + 1 < gr.rows
    THEN [gr EXCEPT !.y = gr.y + 1]
    ELSE IF gr.cols > Len(gr.cells) \/ gr.rows = 0
    THEN [gr EXCEPT !.panicked = TRUE]
    ELSE
        LET line    == [c \in 1..gr.cols |-> gr.cells[c]]
            pushed1 == [gr EXCEPT !.scrollback = push_line(gr.scrollback, line)]
            rotated == [pushed1 EXCEPT !.cells = RotateLeft(gr.cells, gr.cols)]
        IN FillRange(rotated, (gr.rows - 1) * gr.cols, Len(gr.cells))

wrap(gr) == lf(cr(gr))

(* Mutant of put: the cursor advances unclamped and the wrap test is off   *)
(* by one, so the cursor can rest one past the last column.                *)
put_late_clamp(gr, ch) ==
    LET w  == CharWidth(ch)
        g1 == IF gr.x > gr.cols THEN wrap(gr) ELSE gr
        g2 == IF g1.panicked THEN g1 ELSE WriteCell(g1, g1.y * g1.cols + g1.x, ch)
    IN IF g2.panicked THEN g2 ELSE [g2 EXCEPT !.x = g2.x + w]

put(gr, ch) ==
    LET w  == CharWidth(ch)
        g1 == IF gr.x >= gr.cols THEN wrap(gr) ELSE gr
        g2 == IF g1.panicked THEN g1 ELSE WriteCell(g1, g1.y * g1.cols + g1.x, ch)
    IN IF g2.panicked THEN g2
       ELSE [g2 EXCEPT !.x = Min(g2.x + w, SatSub(g2.cols, 1))]

resize(gr, cols, rows) ==
    LET n == cols * rows
        resized == [i \in 1..n |-> IF i <= Len(gr.cells) THEN gr.cells[i] ELSE CellDefault]
    IN [clear_all([gr EXCEPT !.cols = cols, !.rows = rows, !.cells = resized])
           EXCEPT !.x = 0, !.y = 0]

(* Mutant of resize_preserve: the stored scrollback lines are cut to the   *)
(* new width as well.                                                      *)
resize_preserve_reflow(gr, new_cols, new_rows) ==
    [gr EXCEPT !.cols = new_cols, !.rows = new_rows,
               !.cells = [i \in 1..(new_cols * new_rows) |-> CellDefault],
               !.y = Min(gr.y, SatSub(new_rows, 1)),
               !.x = Min(gr.x, SatSub(new_cols, 1)),
               !.scrollback = [gr.scrollback EXCEPT !.lines =
                   [i \in 1..Len(gr.scrollback.lines) |->
                       SubSeq(gr.scrollback.lines[i], 1,
                              Min(Len(gr.scrollback.lines[i]), new_cols))]]]

(* Mutant of resize_preserve: columns are copied right-aligned.            *)
resize_preserve_right_aligned(gr, new_cols, new_rows) ==
    IF new_cols = gr.cols /\ new_rows = gr.rows THEN gr
    ELSE
        LET keep_rows == Min(gr.rows, new_rows)
            keep_cols == Min(gr.cols, new_cols)
            copied == [i \in 1..(new_cols * new_rows) |->
                          LET r == ((i - 1) \div new_cols) - (new_rows - keep_rows)
                              c == ((i - 1) % new_cols) - (new_cols - keep_cols)
                          IN IF r >= 0 /\ c >= 0
                             THEN gr.cells[(gr.rows - keep_rows + r) * gr.cols
                                           + (gr.cols - keep_cols + c) + 1]
                             ELSE CellDefault]
        IN [gr EXCEPT !.cols = new_cols, !.rows = new_rows, !.cells = copied,
                      !.y = IF gr.y >= new_rows THEN SatSub(new_rows, 1) ELSE gr.y,
                      !.x = IF gr.x >= new_cols THEN SatSub(new_cols, 1) ELSE gr.x]

(* Mutant of resize_preserve: rows are copied top-aligned.                  *)
resize_preserve_top_aligned(gr, new_cols, new_rows) ==
    IF new_cols = gr.cols /\ new_rows = gr.rows THEN gr
    ELSE
        LET keep_rows == Min(gr.rows, new_rows)
            keep_cols == Min(gr.cols, new_cols)
            copied == [i \in 1..(new_cols * new_rows) |->
                          LET r == (i - 1) \div new_cols
                              c == (i - 1) % new_cols
                          IN IF r < keep_rows /\ c < keep_cols
                             THEN gr.cells[r * gr.cols + c + 1]
                             ELSE CellDefault]
        IN [gr EXCEPT !.cols = new_cols, !.rows = new_rows, !.cells = copied,
                      !.y = IF gr.y >= new_rows THEN SatSub(new_rows, 1) ELSE gr.y,
                      !.x = IF gr.x >= new_cols THEN SatSub(new_cols, 1) ELSE gr.x]

resize_preserve(gr, new_cols, new_rows) ==
    IF new_cols = gr.cols /\ new_rows = gr.rows THEN gr
    ELSE
        LET old_cols  == gr.cols
            old_rows  == gr.rows
            old_cells == gr.cells
            keep_rows == Min(old_rows, new_rows)
            keep_cols == Min(old_cols, new_cols)
            (* the source cell copied to destination index d, or -1 *)
            SrcOf(d) ==
                LET dst_r == d \div new_cols
                    c     == d % new_cols
                    r     == dst_r - (new_rows - keep_rows)
                IN IF r >= 0 /\ r < keep_rows /\ c < keep_cols
                   THEN (old_rows - keep_rows + r) * old_cols + c
                   ELSE -1
            copied == [i \in 1..(new_cols * new_rows) |->
                          IF SrcOf(i - 1) >= 0 THEN old_cells[SrcOf(i - 1) + 1]
                          ELSE CellDefault]
        IN [gr EXCEPT !.cols = new_cols, !.rows = new_rows, !.cells = copied,
                      !.y = IF gr.y >= new_rows THEN SatSub(new_rows, 1) ELSE gr.y,
                      !.x = IF gr.x >= new_cols THEN SatSub(new_cols, 1) ELSE gr.x]

(* The text of a list of lines: each cell's character, '\0' shown as ' ',  *)
(* and a newline (10) after each line.                                     *)
RECURSIVE LinesText(_)
LinesText(ls) ==
    IF ls = <<>> THEN <<>>
    ELSE [i \in 1..Len(ls[1]) |-> IF ls[1][i].ch = 0 THEN 32 ELSE ls[1][i].ch]
         \o <<10>> \o LinesText(Tail(ls))

(* Rows from..to-1 of the grid as lines of cells.                          *)
GridRows(gr, from, to) ==
    [k \in 1..(IF to > from THEN to - from ELSE 0) |->
        [c \in 1..gr.cols |-> gr.cells[(from + k - 1) * gr.cols + c]]]

to_string_lines(gr) == LinesText(GridRows(gr, 0, gr.rows))

get_display_content(gr) ==
    IF gr.scrollback.scroll_offset > 0
    THEN LET s == LinesText(get_visible_lines(gr.scrollback, gr.rows))
             remaining_rows == SatSub(gr.rows, Len(gr.scrollback.lines))
         IN IF remaining_rows > 0
               /\ gr.scrollback.scroll_offset < Len(gr.scrollback.lines)
            THEN s \o LinesText(GridRows(gr, 0, Min(remaining_rows, gr.rows)))
            ELSE s
    ELSE to_string_lines(gr)

---------------------------------------------------------------------------
(* Performer: vt.rs, impl Perform for Performer.  A machine m is the       *)
(* record [g, parser, bp]: the grid, the vte parser and the bracketed-     *)
(* paste flag the Performer was given.  The inputs of the model contain no *)
(* ':' byte, so every CSI parameter has exactly one sub-parameter and       *)
(* Params is a sequence of u16 values.                                     *)

LF  == 10
CR  == 13
TAB == 9
BS  == 8
ESC == 27
SPACE == 32

(* params.iter().next().and_then(|p| p.first()).copied().unwrap_or(d)      *)
FirstParamOr(params, d) == IF Len(params) = 0 THEN d ELSE params[1]

(* it.next() ... for the second parameter of CUP                           *)
SecondParamOr(params, d) == IF Len(params) < 2 THEN d ELSE params[2]

RECURSIVE TabLoop(_, _)
TabLoop(gr, tab_stop) ==
    IF gr.panicked \/ ~(gr.x < tab_stop) THEN gr
    ELSE TabLoop(put(gr, SPACE), tab_stop)

(* Mutant of tab: tab stops every 4 columns.                               *)
tab_stops_of_4(gr) ==
    IF gr.cols = 0 THEN [gr EXCEPT !.panicked = TRUE]
    ELSE TabLoop(gr, Min(((gr.x \div 4) + 1) * 4, gr.cols - 1))

tab(gr) ==
    IF gr.cols = 0 THEN [gr EXCEPT !.panicked = TRUE]
    ELSE TabLoop(gr, Min(((gr.x \div 8) + 1) * 8, gr.cols - 1))

backspace(gr) == IF gr.x > 0 THEN [gr EXCEPT !.x = gr.x - 1] ELSE gr

execute(gr, byte) ==
    IF byte = LF THEN lf(gr)
    ELSE IF byte = CR THEN cr(gr)
    ELSE IF byte = TAB THEN tab(gr)
    ELSE IF byte = BS THEN backspace(gr)
    ELSE gr

RECURSIVE ClearRows(_, _, _)
ClearRows(gr, from, to) ==
    IF gr.panicked \/ from >= to THEN gr
    ELSE ClearRows(clear_line(gr, from), from + 1, to)

(* Mutant of erase_in_display: mode 1 stops before the cursor cell.         *)
erase_in_display_exclusive(gr, n) ==
    IF n = 0 THEN
        LET g1 == clear_eol_from_cursor(gr)
        IN ClearRows(g1, g1.y + 1, g1.rows)
    ELSE IF n = 1 THEN
        LET g1 == ClearRows(gr, 0, gr.y)
        IN IF g1.panicked THEN g1
           ELSE FillRange(g1, g1.y * g1.cols, g1.y * g1.cols + g1.x)
    ELSE IF n = 2 THEN [clear_all(gr) EXCEPT !.x = 0, !.y = 0]
    ELSE gr

erase_in_display(gr, n) ==
    IF n = 0 THEN
        LET g1 == clear_eol_from_cursor(gr)
        IN ClearRows(g1, g1.y + 1, g1.rows)
    ELSE IF n = 1 THEN
        LET g1 == ClearRows(gr, 0, gr.y)
        IN IF g1.panicked THEN g1 ELSE clear_bol_to_cursor(g1)
    ELSE IF n = 2 THEN [clear_all(gr) EXCEPT !.x = 0, !.y = 0]
    ELSE gr

(* Mutant of erase_in_line: mode 0 runs on to the end of the screen.       *)
erase_in_line_to_screen_end(gr, n) ==
    IF n = 0 THEN FillRange(gr, gr.y * gr.cols + gr.x, Len(gr.cells))
    ELSE IF n = 1 THEN clear_bol_to_cursor(gr)
    ELSE IF n = 2 THEN clear_line(gr, gr.y)
    ELSE gr

erase_in_line(gr, n) ==
    IF n = 0 THEN clear_eol_from_cursor(gr)
    ELSE IF n = 1 THEN clear_bol_to_cursor(gr)
    ELSE IF n = 2 THEN clear_line(gr, gr.y)
    ELSE gr

(* Mutant of cursor_position: a parameter of 0 is not raised to 1 and      *)
(* wraps round to the last row or column.                                  *)
cursor_position_zero_wraps(gr, params) ==
    LET row == FirstParamOr(params, 1)
        col == SecondParamOr(params, 1)
    IN [gr EXCEPT !.y = IF row = 0 THEN SatSub(gr.rows, 1)
                        ELSE Min(row - 1, SatSub(gr.rows, 1)),
                  !.x = IF col = 0 THEN SatSub(gr.cols, 1)
                        ELSE Min(col - 1, SatSub(gr.cols, 1))]

cursor_position(gr, params) ==
    LET row == FirstParamOr(params, 1)
        col == SecondParamOr(params, 1)
    IN [gr EXCEPT !.y = Min(SatSub(row, 1), SatSub(gr.rows, 1)),
                  !.x = Min(SatSub(col, 1), SatSub(gr.cols, 1))]

cursor_up(gr, n) == [gr EXCEPT !.y = SatSub(gr.y, n)]

(* Mutant of cursor_down: the clamp to the last row is missing.            *)
cursor_down_unclamped(gr, n) == [gr EXCEPT !.y = gr.y + n]

cursor_down(gr, n) ==
    IF gr.rows = 0 THEN [gr EXCEPT !.panicked = TRUE]
    ELSE [gr EXCEPT !.y = Min(gr.y + n, gr.rows - 1)]

cursor_forward(gr, n) ==
    IF gr.cols = 0 THEN [gr EXCEPT !.panicked = TRUE]
    ELSE [gr EXCEPT !.x = Min(gr.x + n, gr.cols - 1)]

cursor_back(gr, n) == [gr EXCEPT !.x = SatSub(gr.x, n)]

(* params_iter.next().and_then(|p| p.first()).copied().unwrap_or(0) as u8  *)
NextU8(params, it) == IF it <= Len(params) THEN U8(params[it]) ELSE 0

(* One SGR code n with the iterator standing before parameter it: the new  *)
(* grid and the new iterator position.  target is "fg" or "bg" for 38/48.  *)
ExtendedColor(gr, params, it, target) ==
    LET Set(c) == IF target = "fg" THEN [gr EXCEPT !.current_fg = c]
                  ELSE [gr EXCEPT !.current_bg = c]
    IN IF it > Len(params) THEN [gr |-> gr, it |-> it]
       ELSE IF params[it] = 2 THEN
            [gr |-> Set(<<NextU8(params, it + 1), NextU8(params, it + 2),
                          NextU8(params, it + 3)>>),
             it |-> Min(it + 4, Len(params) + 1)]
       ELSE IF params[it] = 5 THEN
            IF it + 1 <= Len(params)
            THEN [gr |-> Set(from_ansi(U8(params[it + 1]))), it |-> it + 2]
            ELSE [gr |-> gr, it |-> it + 1]
       ELSE [gr |-> gr, it |-> it + 1]

sgr_code(gr, params, it, n) ==
    IF n = 0 THEN
        [gr |-> [gr EXCEPT !.current_fg = ColorDefault, !.current_bg = BLACK,
                           !.current_bold = FALSE, !.current_italic = FALSE,
                           !.current_underline = FALSE], it |-> it]
    ELSE IF n = 1 THEN [gr |-> [gr EXCEPT !.current_bold = TRUE], it |-> it]
    ELSE IF n = 3 THEN [gr |-> [gr EXCEPT !.current_italic = TRUE], it |-> it]
    ELSE IF n = 4 THEN [gr |-> [gr EXCEPT !.current_underline = TRUE], it |-> it]
    ELSE IF n = 22 THEN [gr |-> [gr EXCEPT !.current_bold = FALSE], it |-> it]
    ELSE IF n = 23 THEN [gr |-> [gr EXCEPT !.current_italic = FALSE], it |-> it]
    ELSE IF n = 24 THEN [gr |-> [gr EXCEPT !.current_underline = FALSE], it |-> it]
    ELSE IF n \in 30..37 THEN
        [gr |-> [gr EXCEPT !.current_fg = from_ansi(U8(n - 30))], it |-> it]
    ELSE IF n = 38 THEN ExtendedColor(gr, params, it, "fg")
    ELSE IF n = 39 THEN [gr |-> [gr EXCEPT !.current_fg = ColorDefault], it |-> it]
    ELSE IF n \in 40..47 THEN
        [gr |-> [gr EXCEPT !.current_bg = from_ansi(U8(n - 40))], it |-> it]
    ELSE IF n = 48 THEN ExtendedColor(gr, params, it, "bg")
    ELSE IF n = 49 THEN [gr |-> [gr EXCEPT !.current_bg = BLACK], it |-> it]
    ELSE IF n \in 90..97 THEN
        [gr |-> [gr EXCEPT !.current_fg = from_ansi(U8((n - 90) + 8))], it |-> it]
    ELSE IF n \in 100..107 THEN
        [gr |-> [gr EXCEPT !.current_bg = from_ansi(U8((n - 100) + 8))], it |-> it]
    ELSE [gr |-> gr, it |-> it]

(* while let Some(param) = params_iter.next() { ... }: it is the position  *)
(* of the next parameter the iterator yields.                              *)
RECURSIVE sgr(_, _, _)
sgr(gr, params, it) ==
    IF it > Len(params) THEN gr
    ELSE LET r == sgr_code(gr, params, it + 1, params[it])
         IN sgr(r.gr, params, r.it)

(* for param in params.iter() { for n in param { if *n == 2004 ... } }     *)
private_mode(bp, params, c) ==
    IF \E i \in 1..Len(params) : params[i] = 2004 THEN (c = 104) ELSE bp

csi_dispatch(m, params, inter, c) ==
    IF inter = <<63>> THEN [m EXCEPT !.bp = private_mode(m.bp, params, c)]
    ELSE IF c = 74 THEN [m EXCEPT !.g = erase_in_display(m.g, FirstParamOr(params, 0))]
    ELSE IF c = 75 THEN [m EXCEPT !.g = erase_in_line(m.g, FirstParamOr(params, 0))]
    ELSE IF c = 72 \/ c = 102 THEN [m EXCEPT !.g = cursor_position(m.g, params)]
    ELSE IF c = 65 THEN [m EXCEPT !.g = cursor_up(m.g, FirstParamOr(params, 1))]
    ELSE IF c = 66 THEN [m EXCEPT !.g = cursor_down(m.g, FirstParamOr(params, 1))]
    ELSE IF c = 67 THEN [m EXCEPT !.g = cursor_forward(m.g, FirstParamOr(params, 1))]
    ELSE IF c = 68 THEN [m EXCEPT !.g = cursor_back(m.g, FirstParamOr(params, 1))]
    ELSE IF c = 109 THEN [m EXCEPT !.g = sgr(m.g, params, 1)]
    ELSE m

---------------------------------------------------------------------------
(* vte::Parser as driven by advance_bytes_with_bracketed (vt.rs): the      *)
(* byte-at-a-time state machine whose callbacks are the Performer's.  The  *)
(* parser is a process-wide static, so its state outlives every call.      *)

MAX_PARAMS        == 32
MAX_INTERMEDIATES == 2
U16_MAX           == 65535
REPLACEMENT       == 65533

ParserNew ==
    [state |-> "Ground", params |-> <<>>, param |-> 0, inter |-> <<>>,
     ignoring |-> FALSE, utf8 |-> "Ground", point |-> 0]

IsC0Execute(b) == b \in 0..23 \/ b = 25 \/ b \in 28..31

(* Action::Clear, the entry action of Escape, CsiEntry and DcsEntry.       *)
ParserClear(p, state) ==
    [p EXCEPT !.state = state, !.params = <<>>, !.param = 0, !.inter = <<>>,
              !.ignoring = FALSE]

(* Action::Param for a digit or ';'.                                       *)
ActionParam(p, b) ==
    IF Len(p.params) = MAX_PARAMS THEN [p EXCEPT !.ignoring = TRUE]
    ELSE IF b = 59 THEN [p EXCEPT !.params = Append(@, p.param), !.param = 0]
    ELSE [p EXCEPT !.param = Min(Min(p.param * 10, U16_MAX) + (b - 48), U16_MAX)]

(* Action::Collect.                                                        *)
ActionCollect(p, b) ==
    IF Len(p.inter) = MAX_INTERMEDIATES THEN [p EXCEPT !.ignoring = TRUE]
    ELSE [p EXCEPT !.inter = Append(@, b)]

(* Action::CsiDispatch: the pending parameter is pushed, then the          *)
(* Performer's csi_dispatch runs and the parser returns to Ground.         *)
ActionCsiDispatch(m, b) ==
    LET p1 == IF Len(m.parser.params) = MAX_PARAMS
              THEN [m.parser EXCEPT !.ignoring = TRUE]
              ELSE [m.parser EXCEPT !.params = Append(@, m.parser.param)]
        m1 == csi_dispatch(m, p1.params, p1.inter, b)
    IN [m1 EXCEPT !.parser = [p1 EXCEPT !.state = "Ground"]]

(* utf8parse: the decoder behind State::Utf8.  A completed code point is   *)
(* printed; an invalid byte is consumed and U+FFFD printed instead.        *)
Utf8Invalid(m) ==
    [m EXCEPT !.g = put(m.g, REPLACEMENT),
              !.parser = [m.parser EXCEPT !.state = "Ground", !.utf8 = "Ground",
                                          !.point = 0]]

Utf8Step(m, next, add) ==
    [m EXCEPT !.parser = [m.parser EXCEPT !.utf8 = next, !.point = @ + add]]

process_utf8(m, b) ==
    LET u == m.parser.utf8
        cont == b \in 128..191
    IN IF u = "Ground" THEN
            IF b \in 194..223 THEN Utf8Step(m, "Tail1", (b - 192) * 64)
            ELSE IF b = 224 THEN Utf8Step(m, "U3_2_e0", 0)
            ELSE IF b \in 225..236 \/ b \in 238..239
                 THEN Utf8Step(m, "Tail2", (b - 224) * 4096)
            ELSE IF b = 237 THEN Utf8Step(m, "U3_2_ed", 13 * 4096)
            ELSE IF b = 240 THEN Utf8Step(m, "Utf8_4_3_f0", 0)
            ELSE IF b \in 241..243 THEN Utf8Step(m, "Tail3", (b - 240) * 262144)
            ELSE IF b = 244 THEN Utf8Step(m, "Utf8_4_3_f4", 4 * 262144)
            ELSE Utf8Invalid(m)
       ELSE IF u = "U3_2_e0" THEN
            IF b \in 160..191 THEN Utf8Step(m, "Tail1", (b - 128) * 64) ELSE Utf8Invalid(m)
       ELSE IF u = "U3_2_ed" THEN
            IF b \in 128..159 THEN Utf8Step(m, "Tail1", (b - 128) * 64) ELSE Utf8Invalid(m)
       ELSE IF u = "Utf8_4_3_f0" THEN
            IF b \in 144..191 THEN Utf8Step(m, "Tail2", (b - 128) * 4096) ELSE Utf8Invalid(m)
       ELSE IF u = "Utf8_4_3_f4" THEN
            IF b \in 128..143 THEN Utf8Step(m, "Tail2", (b - 128) * 4096) ELSE Utf8Invalid(m)
       ELSE IF u = "Tail3" THEN
            IF cont THEN Utf8Step(m, "Tail2", (b - 128) * 4096) ELSE Utf8Invalid(m)
       ELSE IF u = "Tail2" THEN
            IF cont THEN Utf8Step(m, "Tail1", (b - 128) * 64) ELSE Utf8Invalid(m)
       ELSE \* Tail1
            IF cont
            THEN [m EXCEPT !.g = put(m.g, m.parser.point + (b - 128)),
                           !.parser = [m.parser EXCEPT !.state = "Ground",
                                                       !.utf8 = "Ground", !.point = 0]]
            ELSE Utf8Invalid(m)

SetState(m, state) == [m EXCEPT !.parser = [m.parser EXCEPT !.state = state]]

(* Parser::advance(&mut performer, byte).                                  *)
advance(m, b) ==
    LET p == m.parser
        st == p.state
        Exec == [m EXCEPT !.g = execute(m.g, b)]
    IN IF st = "Utf8" THEN process_utf8(m, b)
       ELSE IF b = ESC THEN [m EXCEPT !.parser = ParserClear(p, "Escape")]
       ELSE IF b = 24 \/ b = 26 THEN SetState(Exec, "Ground")
       ELSE IF st = "Ground" THEN
            IF IsC0Execute(b) THEN Exec
            ELSE IF b \in 32..127 THEN [m EXCEPT !.g = put(m.g, b)]
            ELSE IF b \in 128..143 \/ b \in 145..154 \/ b = 156 THEN Exec
            ELSE IF b \in 194..244 THEN process_utf8(SetState(m, "Utf8"), b)
            ELSE m
       ELSE IF st = "Escape" THEN
            IF IsC0Execute(b) THEN Exec
            ELSE IF b \in 32..47
                 THEN [m EXCEPT !.parser = ActionCollect([p EXCEPT !.state = "EscapeIntermediate"], b)]
            ELSE IF b = 91 THEN [m EXCEPT !.parser = ParserClear(p, "CsiEntry")]
            ELSE IF b = 93 THEN SetState(m, "OscString")
            ELSE IF b = 80 THEN [m EXCEPT !.parser = ParserClear(p, "DcsEntry")]
            ELSE IF b = 88 \/ b = 94 \/ b = 95 THEN SetState(m, "SosPmApcString")
            ELSE IF b \in 48..126 THEN SetState(m, "Ground")
            ELSE m
       ELSE IF st = "EscapeIntermediate" THEN
            IF IsC0Execute(b) THEN Exec
            ELSE IF b \in 32..47 THEN [m EXCEPT !.parser = ActionCollect(p, b)]
            ELSE IF b \in 48..126 THEN SetState(m, "Ground")
            ELSE m
       ELSE IF st = "CsiEntry" THEN
            IF IsC0Execute(b) THEN Exec
            ELSE IF b \in 32..47
                 THEN [m EXCEPT !.parser = ActionCollect([p EXCEPT !.state = "CsiIntermediate"], b)]
            ELSE IF b \in 48..57 \/ b = 59
                 THEN [m EXCEPT !.parser = ActionParam([p EXCEPT !.state = "CsiParam"], b)]
            ELSE IF b \in 60..63
                 THEN [m EXCEPT !.parser = ActionCollect([p EXCEPT !.state = "CsiParam"], b)]
            ELSE IF b \in 64..126 THEN ActionCsiDispatch(m, b)
            ELSE m
       ELSE IF st = "CsiParam" THEN
            IF IsC0Execute(b) THEN Exec
            ELSE IF b \in 48..57 \/ b = 59 THEN [m EXCEPT !.parser = ActionParam(p, b)]
            ELSE IF b \in 60..63 THEN SetState(m, "CsiIgnore")
            ELSE IF b \in 32..47
                 THEN [m EXCEPT !.parser = ActionCollect([p EXCEPT !.state = "CsiIntermediate"], b)]
            ELSE IF b \in 64..126 THEN ActionCsiDispatch(m, b)
            ELSE m
       ELSE IF st = "CsiIntermediate" THEN
            IF IsC0Execute(b) THEN Exec
            ELSE IF b \in 32..47 THEN [m EXCEPT !.parser = ActionCollect(p, b)]
            ELSE IF b \in 48..63 THEN SetState(m, "CsiIgnore")
            ELSE IF b \in 64..126 THEN ActionCsiDispatch(m, b)
            ELSE m
       ELSE IF st = "CsiIgnore" THEN
            IF IsC0Execute(b) THEN Exec
            ELSE IF b \in 64..126 THEN SetState(m, "Ground")
            ELSE m
       ELSE IF st = "OscString" THEN
            IF b = 7 THEN SetState(m, "Ground") ELSE m
       ELSE IF st = "SosPmApcString" THEN m
       ELSE \* DcsEntry and the DCS states behind it: hook/put/unhook are no-ops
            IF b \in 64..126 /\ st = "DcsEntry" THEN SetState(m, "DcsPassthrough")
            ELSE m

(* advance_bytes_with_bracketed(g, bytes, Some(flag)): the static parser   *)
(* is locked and every byte of the chunk is fed to it in order.  A panic   *)
(* unwinds out of the call, so the remaining bytes are not processed.      *)
RECURSIVE AdvanceFrom(_, _, _)
AdvanceFrom(m, bytes, i) ==
    IF i > Len(bytes) \/ m.g.panicked THEN m
    ELSE AdvanceFrom(advance(m, bytes[i]), bytes, i + 1)

(* Mutant of advance_bytes_with_bracketed: a parser created per call.      *)
advance_bytes_fresh_parser(m, bytes) ==
    AdvanceFrom([m EXCEPT !.parser = ParserNew], bytes, 1)

advance_bytes_with_bracketed(m, bytes) == AdvanceFrom(m, bytes, 1)

---------------------------------------------------------------------------
(* The terminal session seen from the grid: main.rs feeds PTY chunks to    *)
(* the interpreter and resizes or clears the grid on window events.        *)

Machine == [g |-> g, parser |-> parser, bp |-> bracketed_paste_enabled]

WIDE_CHAR == <<228, 184, 184>>

(* The chunks a PtyData event may carry: complete sequences, and single    *)
(* bytes from which truncated, split and malformed sequences are built.    *)
Chunks ==
    { <<97>>, <<97, LF, 97>>, WIDE_CHAR, <<228>>, <<184>>,
      <<LF>>, <<CR>>, <<TAB>>, <<BS>>,
      <<ESC>>, <<91>>, <<59>>, <<57>>, <<63>>, <<72>>,
      <<ESC, 91, 74>>, <<ESC, 91, 49, 74>>, <<ESC, 91, 50, 74>>,
      <<ESC, 91, 75>>, <<ESC, 91, 49, 75>>, <<ESC, 91, 50, 75>>,
      <<ESC, 91, 57>>,
      <<ESC, 91, 50, 59, 50, 102>>, <<ESC, 91, 65>>, <<ESC, 91, 57, 66>>,
      <<ESC, 91, 57, 67>>, <<ESC, 91, 49, 68>>,
      <<ESC, 91, 49, 59, 51, 49, 109>>,
      <<ESC, 91, 63, 50, 48, 48, 52, 104>> }

(* Output that prints and scrolls lines into the history.                  *)
ViewChunks == { <<97>>, <<LF>>, <<98, LF>> }

Dims == (1..MaxCols) \X (1..MaxRows)

(* PtyHandle::spawn(rows, cols): openpty(PtySize { rows, cols, .. }).      *)
pty_spawn(rows, cols) == [rows |-> rows, cols |-> cols]

(* ScrollState as main() creates it: at the top of an empty history,       *)
(* following the output.  subrow is counted in half rows; moving stands    *)
(* for |vel_rows_per_s| >= 0.02; underflow records that the subtraction    *)
(* max_top - top_abs of the redraw handler was evaluated with              *)
(* top_abs > max_top.                                                      *)
ScrollStateNew ==
    [top_abs |-> 0, subrow |-> 0, moving |-> FALSE, stick_to_bottom |-> TRUE,
     underflow |-> FALSE]

(* The event-loop thread between two events: in no handler, no guard held. *)
HandlerIdle ==
    [name |-> "idle", pc |-> 0, held |-> {}, relock |-> "none",
     outcome |-> "none", frame_count |-> 0]

(* The threads that call PtyHandle::write.                                  *)
WriterThreads == {"t1", "t2"}

(* No write call in progress: the writer mutex is free.                    *)
(* log lists the calls that returned, flushed counts the bytes of the      *)
(* input stream that a flush has pushed out.                               *)
WritersIdle ==
    [lock |-> "free", ncalls |-> 0, flushed |-> 0, log |-> <<>>,
     th |-> [t \in WriterThreads |->
                [pc |-> "idle", call |-> 0, len |-> 0, left |-> <<>>]]]

InitRest ==
    /\ parser = ParserNew
    /\ bracketed_paste_enabled = FALSE
    /\ nfed = 0
    /\ pushed = <<>>
    /\ os_read = 0
    /\ reader = [pc |-> "read", data |-> 0]
    /\ chan = <<>>
    /\ fwd = [pc |-> "recv", data |-> 0]
    /\ evq = <<>>
    /\ loop_alive = TRUE
    /\ grid_lock = "free"
    /\ ev_pc = "idle"
    /\ applying = <<>>
    /\ applied = <<>>
    /\ ev_snap = 0
    /\ snap = 0
    /\ pty_out = <<>>
    /\ scroll = ScrollStateNew
    /\ handler = HandlerIdle
    /\ writers = WritersIdle

(* Grid::new(80, 25) and PtyHandle::spawn(25, 80), at the model's sizes.   *)
Init ==
    /\ \E d \in Dims : g = GridNew(d[1], d[2]) /\ pty_size = pty_spawn(d[2], d[1])
    /\ InitRest

(* UserEvent::PtyData(data): the chunk is applied under the grid lock.     *)
PtyData(data) ==
    /\ ~g.panicked
    /\ LET m == advance_bytes_with_bracketed(Machine, data)
       IN /\ g' = m.g
          /\ parser' = m.parser
          /\ bracketed_paste_enabled' = m.bp
    /\ nfed' = nfed + 1
    /\ UNCHANGED <<pushed, ptyVars, ioVars>>

(* Grid::resize, the destructive resize.                                   *)
Resize(cols, rows) ==
    /\ ~g.panicked
    /\ g' = resize(g, cols, rows)
    /\ nfed' = nfed + 1
    /\ UNCHANGED <<parser, bracketed_paste_enabled, pushed, ptyVars, ioVars>>

(* Mutant of pty_resize: the arguments change places.                      *)
pty_resize_swapped(rows, cols) == [rows |-> cols, cols |-> rows]

(* PtyHandle::resize(rows, cols): master.resize(PtySize { rows, cols, .. }) *)
pty_resize(rows, cols) == [rows |-> rows, cols |-> cols]

(* WindowEvent::Resized and the zoom shortcuts: the grid is resized with   *)
(* resize_preserve(cols, rows), then the PTY with pty.resize(rows, cols).  *)
Resized(cols, rows) ==
    /\ ~g.panicked
    /\ g' = resize_preserve(g, cols, rows)
    /\ pty_size' = pty_resize(rows, cols)
    /\ nfed' = nfed + 1
    /\ UNCHANGED <<parser, bracketed_paste_enabled, pushed, ptyVars, pty_out, uiVars>>

(* Cmd+K: clear the grid and the scrollback, home the cursor.              *)
ClearScreen ==
    /\ ~g.panicked
    /\ g' = [clear_all(g) EXCEPT !.scrollback = sb_clear(g.scrollback),
                                 !.x = 0, !.y = 0]
    /\ nfed' = nfed + 1
    /\ UNCHANGED <<parser, bracketed_paste_enabled, pushed, ptyVars, ioVars>>

Next ==
    \/ \E data \in Chunks : nfed < MaxFeeds /\ PtyData(data)
    \/ \E d \in Dims : nfed < MaxFeeds /\ Resize(d[1], d[2])
    \/ \E d \in Dims : nfed < MaxFeeds /\ Resized(d[1], d[2])
    \/ nfed < MaxFeeds /\ ClearScreen

Spec == Init /\ [][Next]_vars

(* PtyHandle::write(data): writer.write_all(data) and flush.               *)
pty_write(out, data) == out \o data

PASTE_START == <<ESC, 91, 50, 48, 48, 126>>
PASTE_END   == <<ESC, 91, 50, 48, 49, 126>>

(* What paste_from_clipboard() may return.                                 *)
PasteTexts == { <<>>, <<97, LF>> }

(* Mutant of Paste: the markers are written whatever the flag says.        *)
Paste_always_bracketed(text) ==
    /\ pty_out' = pty_write(pty_write(pty_write(pty_out, PASTE_START), text),
                            PASTE_END)
    /\ nfed' = nfed + 1
    /\ UNCHANGED <<g, parser, bracketed_paste_enabled, pushed, ptyVars, pty_size,
                   uiVars>>

(* Cmd+V with Some(text) on the clipboard.                                 *)
Paste(text) ==
    /\ pty_out' = IF bracketed_paste_enabled
                  THEN pty_write(pty_write(pty_write(pty_out, PASTE_START), text),
                                 PASTE_END)
                  ELSE pty_write(pty_out, text)
    /\ nfed' = nfed + 1
    /\ UNCHANGED <<g, parser, bracketed_paste_enabled, pushed, ptyVars, pty_size,
                   uiVars>>

(* The application: the handlers of main.rs that touch the grid, the flag  *)
(* or the PTY.  (Grid::resize is not called by the application.)           *)
NextApp ==
    \/ \E data \in Chunks : nfed < MaxFeeds /\ PtyData(data)
    \/ \E d \in Dims : nfed < MaxFeeds /\ Resized(d[1], d[2])
    \/ nfed < MaxFeeds /\ ClearScreen
    \/ \E text \in PasteTexts : nfed < MaxFeeds /\ Paste(text)

SpecApp == Init /\ [][NextApp]_vars

(* The viewport over history and screen (main.rs): top_abs is the index of *)
(* the first line shown, max_top the index at which the live screen is     *)
(* shown.  subrow, an f32 in rows, is counted in units of 1/SubrowUnit.    *)
SubrowUnit == 2

(* total.saturating_sub(vis) with total = scrollback.len() + rows.         *)
max_top(gr) == SatSub(Len(gr.scrollback.lines) + gr.rows, gr.rows)

Clamp(v, lo, hi) == IF v < lo THEN lo ELSE IF v > hi THEN hi ELSE v

(* The scroll block of the PtyData handler.                                *)
follow_output(s, gr) ==
    IF s.stick_to_bottom
    THEN [s EXCEPT !.top_abs = max_top(gr), !.subrow = 0]
    ELSE [s EXCEPT !.top_abs = Min(s.top_abs, max_top(gr))]

(* The scroll block of the Resized handler and of the zoom shortcuts.      *)
follow_resize(s, gr) ==
    [s EXCEPT !.top_abs = IF s.stick_to_bottom THEN max_top(gr)
                          ELSE Min(s.top_abs, max_top(gr)),
              !.subrow = 0, !.moving = FALSE]

(* The scroll block of RedrawRequested.  inertia is vel_rows_per_s * dt in *)
(* subrow units and stops says that friction brought the velocity under   *)
(* 0.02.  Whole rows are moved from subrow to top_abs, then                *)
(* up_room = max_top - top_abs is computed: with top_abs > max_top the     *)
(* subtraction underflows and the state is left as it is there.            *)
redraw_scroll(s, gr, inertia, stops) ==
    LET mt   == max_top(gr)
        sub0 == s.subrow + inertia
        nup  == IF sub0 >= SubrowUnit /\ s.top_abs < mt
                THEN Min(sub0 \div SubrowUnit, mt - s.top_abs) ELSE 0
        sub1 == sub0 - nup * SubrowUnit
        top1 == s.top_abs + nup
        ndn  == IF sub1 <= -SubrowUnit /\ top1 > 0
                THEN Min((-sub1) \div SubrowUnit, top1) ELSE 0
        sub2 == sub1 + ndn * SubrowUnit
        top2 == top1 - ndn
        up_room   == mt - top2
        down_room == top2
        sub3 == IF up_room > 0 /\ down_room > 0 THEN Clamp(sub2, -SubrowUnit, SubrowUnit)
                ELSE IF up_room > 0 THEN Clamp(sub2, 0, SubrowUnit)
                ELSE IF down_room > 0 THEN Clamp(sub2, -SubrowUnit, 0)
                ELSE 0
        stick == s.stick_to_bottom \/ (top2 = mt /\ stops /\ sub3 = 0)
    IN IF top2 > mt
       THEN [s EXCEPT !.top_abs = top2, !.subrow = sub2, !.moving = ~stops,
                      !.underflow = TRUE]
       ELSE IF stick
       THEN [s EXCEPT !.top_abs = mt, !.subrow = 0, !.moving = FALSE,
                      !.stick_to_bottom = TRUE]
       ELSE [s EXCEPT !.top_abs = top2, !.subrow = sub3, !.moving = ~stops]

ScrollFrame ==
    UNCHANGED <<g, parser, bracketed_paste_enabled, nfed, pushed, ptyVars,
                pty_out, pty_size, handler, writers>>

(* UserEvent::PtyData: the chunk is interpreted, then the viewport follows. *)
OnPtyData(data) ==
    /\ ~g.panicked /\ ~scroll.underflow
    /\ LET m == advance_bytes_with_bracketed(Machine, data)
       IN /\ g' = m.g
          /\ parser' = m.parser
          /\ bracketed_paste_enabled' = m.bp
          /\ scroll' = IF m.g.panicked THEN scroll ELSE follow_output(scroll, m.g)
    /\ nfed' = nfed + 1
    /\ UNCHANGED <<pushed, ptyVars, pty_out, pty_size, handler, writers>>

(* WindowEvent::Resized and the zoom shortcuts.                            *)
OnResized(cols, rows) ==
    /\ ~g.panicked /\ ~scroll.underflow
    /\ g' = resize_preserve(g, cols, rows)
    /\ pty_size' = pty_resize(rows, cols)
    /\ scroll' = IF g'.panicked THEN scroll ELSE follow_resize(scroll, g')
    /\ nfed' = nfed + 1
    /\ UNCHANGED <<parser, bracketed_paste_enabled, pushed, ptyVars, pty_out,
                   handler, writers>>

(* Cmd+K: grid and scrollback are cleared, the cursor homed and Ctrl-L     *)
(* written to the PTY; the ScrollState is not touched.                     *)
OnClearScrollback ==
    /\ ~g.panicked /\ ~scroll.underflow
    /\ g' = [clear_all(g) EXCEPT !.scrollback = sb_clear(g.scrollback),
                                 !.x = 0, !.y = 0]
    /\ pty_out' = pty_write(pty_out, <<12>>)
    /\ nfed' = nfed + 1
    /\ UNCHANGED <<parser, bracketed_paste_enabled, pushed, ptyVars, pty_size,
                   uiVars>>

(* WindowEvent::MouseWheel with a delta of d subrow units.                 *)
OnMouseWheel(d) ==
    /\ ~scroll.underflow
    /\ scroll.subrow + d \in (-MaxSubrow)..MaxSubrow
    /\ scroll' = [scroll EXCEPT !.subrow = scroll.subrow + d, !.moving = TRUE,
                                !.stick_to_bottom = FALSE]
    /\ ScrollFrame

OnPageUp ==
    /\ ~scroll.underflow
    /\ scroll' = [scroll EXCEPT !.top_abs = SatSub(scroll.top_abs, g.rows),
                                !.subrow = 0, !.stick_to_bottom = FALSE]
    /\ ScrollFrame

OnPageDown ==
    /\ ~scroll.underflow
    /\ LET t == Min(scroll.top_abs + g.rows, max_top(g))
       IN scroll' = [scroll EXCEPT !.top_abs = t, !.subrow = 0,
                                   !.stick_to_bottom = @ \/ t = max_top(g)]
    /\ ScrollFrame

(* Shift+Home.                                                             *)
OnScrollToTop ==
    /\ ~scroll.underflow
    /\ scroll' = [scroll EXCEPT !.top_abs = 0, !.subrow = 0,
                                !.stick_to_bottom = FALSE]
    /\ ScrollFrame

(* Shift+End.                                                              *)
OnScrollToEnd ==
    /\ ~scroll.underflow
    /\ scroll' = [scroll EXCEPT !.top_abs = max_top(g), !.subrow = 0,
                                !.stick_to_bottom = TRUE]
    /\ ScrollFrame

(* WindowEvent::RedrawRequested.                                           *)
OnRedraw(inertia, stops) ==
    /\ ~scroll.underflow
    /\ scroll.moving \/ (inertia = 0 /\ stops)
    /\ scroll' = redraw_scroll(scroll, g, inertia, stops)
    /\ ScrollFrame

WheelDeltas == {-3, -1, 1, 3}

NextScroll ==
    \/ \E data \in ViewChunks : nfed < MaxScroll /\ OnPtyData(data)
    \/ \E d \in Dims : nfed < MaxScroll /\ OnResized(d[1], d[2])
    \/ nfed < MaxScroll /\ OnClearScrollback
    \/ \E d \in WheelDeltas : OnMouseWheel(d)
    \/ OnPageUp
    \/ OnPageDown
    \/ OnScrollToTop
    \/ OnScrollToEnd
    \/ \E inertia \in {-1, 0, 1} : \E stops \in BOOLEAN : OnRedraw(inertia, stops)

SpecScroll == Init /\ [][NextScroll]_vars

(* The mutex guards of the event-loop thread (main.rs).  Each handler is   *)
(* the list of its lock() calls and guard drops in program order; a guard  *)
(* bound with let is dropped at the end of its block, a temporary guard at *)
(* the end of its statement, and the temporary of an `if let` scrutinee at *)
(* the end of the whole `if let`, after its body.                          *)
Acquire(m) == <<"lock", m>>
Release(m) == <<"unlock", m>>

ResizeLocks ==
    <<Acquire("renderer"), Release("renderer"), Acquire("grid"), Release("grid"),
      Acquire("grid"), Acquire("scroll"), Release("scroll"), Release("grid")>>

PageLocks == <<Acquire("scroll"), Acquire("grid"), Release("grid"), Release("scroll")>>

LockProgram(name, outcome) ==
    CASE name = "PtyData" ->
           <<Acquire("grid"), Release("grid"),
             Acquire("grid"), Acquire("scroll"), Release("scroll"), Release("grid"),
             Acquire("grid"), Acquire("renderer"), Release("renderer"), Release("grid")>>
      [] name = "CursorMoved" -> <<Acquire("renderer"), Release("renderer")>>
      [] name = "MouseWheel" ->
           <<Acquire("renderer"), Release("renderer"), Acquire("scroll"), Release("scroll")>>
      [] name = "MousePressed" ->
           <<Acquire("renderer"), Release("renderer"), Acquire("grid"), Release("grid"),
             Acquire("grid"), Release("grid")>>
      [] name = "MouseReleased" -> <<Acquire("grid"), Release("grid")>>
      [] name \in {"Resized", "ZoomIn", "ZoomOut", "ZoomReset"} -> ResizeLocks
      [] name = "ClearScrollback" ->
           <<Acquire("grid"), Release("grid"),
             Acquire("grid"), Acquire("renderer"), Release("renderer"), Release("grid")>>
      [] name \in {"PageUp", "PageDown", "ScrollToEnd"} -> PageLocks
      [] name = "ScrollToTop" -> <<Acquire("scroll"), Release("scroll")>>
      [] name = "Redraw" ->
           <<Acquire("scroll"), Acquire("grid"), Release("grid"),
             Acquire("renderer"), Release("renderer"), Release("scroll"),
             Acquire("renderer"), Acquire("grid"), Release("grid"), Release("renderer"),
             Acquire("renderer"), <<"render_frame">> >>
           \o (IF outcome = "lost"
               THEN <<Acquire("renderer"), Release("renderer")>> ELSE <<>>)
           \o <<Release("renderer")>>

HandlerNames ==
    {"PtyData", "CursorMoved", "MouseWheel", "MousePressed", "MouseReleased",
     "Resized", "ZoomIn", "ZoomOut", "ZoomReset", "ClearScrollback",
     "PageUp", "PageDown", "ScrollToEnd", "ScrollToTop", "Redraw"}

(* render_frame returns Ok, a lost or outdated surface, out of memory or   *)
(* another error.                                                          *)
FrameOutcomes == {"ok", "lost", "out_of_memory", "other"}

HandlerOps == LockProgram(handler.name, handler.outcome)

HandlerAt(kind) ==
    /\ handler.name # "idle"
    /\ handler.relock = "none"
    /\ handler.pc <= Len(HandlerOps)
    /\ HandlerOps[handler.pc][1] = kind

LockFrame ==
    UNCHANGED <<gridVars, ptyVars, pty_out, pty_size, scroll, writers>>

(* The event loop calls the handler of the next event.                     *)
HandlerBegin(name) ==
    /\ handler.name = "idle"
    /\ name = "Redraw" => handler.frame_count < MaxFrames
    /\ handler' = [handler EXCEPT !.name = name, !.pc = 1, !.outcome = "none"]
    /\ LockFrame

(* m.lock().unwrap(): the guard is taken if the mutex is free.  All three  *)
(* mutexes are locked by this thread only, so a mutex that is not free is  *)
(* held by the caller itself: the call never returns (std's Mutex blocks   *)
(* forever or panics), which relock records.                               *)
HandlerLock ==
    /\ HandlerAt("lock")
    /\ LET m == HandlerOps[handler.pc][2]
       IN handler' = IF m \in handler.held
                     THEN [handler EXCEPT !.relock = m]
                     ELSE [handler EXCEPT !.held = @ \cup {m}, !.pc = @ + 1]
    /\ LockFrame

(* A guard goes out of scope.                                              *)
HandlerUnlock ==
    /\ HandlerAt("unlock")
    /\ handler' = [handler EXCEPT !.held = @ \ {HandlerOps[handler.pc][2]},
                                  !.pc = @ + 1]
    /\ LockFrame

(* renderer.lock().unwrap().render_frame() returns.                        *)
RenderFrame(outcome) ==
    /\ HandlerAt("render_frame")
    /\ handler' = [handler EXCEPT !.outcome = outcome, !.pc = @ + 1]
    /\ LockFrame

(* The handler returns to the event loop.                                  *)
HandlerEnd ==
    /\ handler.name # "idle"
    /\ handler.relock = "none"
    /\ handler.pc > Len(HandlerOps)
    /\ handler' = [handler EXCEPT !.name = "idle", !.pc = 0, !.outcome = "none",
                                  !.frame_count = IF handler.name = "Redraw"
                                                  THEN @ + 1 ELSE @]
    /\ LockFrame

NextLocks ==
    \/ \E name \in HandlerNames : HandlerBegin(name)
    \/ HandlerLock
    \/ HandlerUnlock
    \/ \E outcome \in FrameOutcomes : RenderFrame(outcome)
    \/ HandlerEnd

(* The interpreter alone, on one grid: only PTY chunks arrive.             *)
InitFeed ==
    /\ g = GridNew(MaxCols, MaxRows)
    /\ pty_size = pty_spawn(MaxRows, MaxCols)
    /\ InitRest

NextFeed == \E data \in Chunks : nfed < MaxSplitFeeds /\ PtyData(data)

SpecFeed == InitFeed /\ [][NextFeed]_vars

(* The event-loop thread alone: handlers run one after the other.         *)
SpecLocks == InitFeed /\ [][NextLocks]_vars

(* The library on a zero-sized grid: Grid::new(cols, rows) with cols = 0   *)
(* or rows = 0, fed with bytes and resized with Grid::resize to another    *)
(* zero-sized geometry.                                                    *)
ZeroDims == { d \in (0..MaxCols) \X (0..MaxRows) : d[1] = 0 \/ d[2] = 0 }

InitZero ==
    /\ \E d \in ZeroDims : g = GridNew(d[1], d[2]) /\ pty_size = pty_spawn(d[2], d[1])
    /\ InitRest

NextZero ==
    \/ \E data \in Chunks : nfed < MaxFeeds /\ PtyData(data)
    \/ \E d \in ZeroDims : nfed < MaxFeeds /\ Resize(d[1], d[2])

SpecZero == InitZero /\ [][NextZero]_vars

(* The palette through the interpreter: one ESC[38;5;<n>m or               *)
(* ESC[48;5;<n>m for any index n of the u8 range, on a fresh grid.         *)
U8_MAX == 255

RECURSIVE Decimal(_)
Decimal(n) == IF n < 10 THEN <<48 + n>> ELSE Decimal(n \div 10) \o <<48 + (n % 10)>>

IndexedColour(code, n) == <<ESC, 91>> \o Decimal(code) \o <<59, 53, 59>> \o Decimal(n) \o <<109>>

NextColour ==
    \/ \E n \in 0..U8_MAX : nfed = 0 /\ PtyData(IndexedColour(38, n))
    \/ \E n \in 0..U8_MAX : nfed = 0 /\ PtyData(IndexedColour(48, n))

SpecColour == InitFeed /\ [][NextColour]_vars

(* A first session: the bytes "Hi\r\n", ESC[31m, "Red", ESC[0m arrive on a *)
(* fresh grid (80x25 as in main.rs, or a smaller one with room for the     *)
(* text) in chunks of any length up to BytesPerChunk.  nfed counts the     *)
(* bytes fed so far.                                                       *)
HelloInput ==
    <<72, 105, CR, LF, ESC, 91, 51, 49, 109, 82, 101, 100, ESC, 91, 48, 109>>

HelloDims == {<<80, 25>>} \cup ((4..(MaxCols + 3)) \X (2..(MaxRows + 2)))

InitHello ==
    /\ \E d \in HelloDims : g = GridNew(d[1], d[2]) /\ pty_size = pty_spawn(d[2], d[1])
    /\ InitRest

FeedHello(k) ==
    /\ ~g.panicked
    /\ nfed + k <= Len(HelloInput)
    /\ LET m == advance_bytes_with_bracketed(Machine,
                    SubSeq(HelloInput, nfed + 1, nfed + k))
       IN /\ g' = m.g
          /\ parser' = m.parser
          /\ bracketed_paste_enabled' = m.bp
    /\ nfed' = nfed + k
    /\ UNCHANGED <<pushed, ptyVars, ioVars>>

NextHello == \E k \in 1..BytesPerChunk : FeedHello(k)

SpecHello == InitHello /\ [][NextHello]_vars

(* Tabs on grids narrower and wider than one and two tab stops: the cursor *)
(* is put on any column with CUP, characters are printed and tabs          *)
(* executed.                                                               *)
TabCols == {1, 8, 9, 17, 20}

InitTab ==
    /\ \E c \in TabCols : \E r \in 1..MaxRows :
          g = GridNew(c, r) /\ pty_size = pty_spawn(r, c)
    /\ InitRest

(* A tab, a printed character, and CUP to row 2 and any column.            *)
TabInputs ==
    { <<TAB>>, <<97>> }
    \cup { <<ESC, 91, 50, 59>> \o Decimal(k) \o <<72>> : k \in 1..20 }

NextTab == \E data \in TabInputs : nfed < MaxFeeds /\ PtyData(data)

SpecTab == InitTab /\ [][NextTab]_vars

(* The grid's scrolling methods next to PTY output: lines scroll into the  *)
(* history and the view is moved up and down over it.                      *)
GridScroll(op) ==
    /\ ~g.panicked
    /\ g' = [g EXCEPT !.scrollback = op]
    /\ UNCHANGED <<parser, bracketed_paste_enabled, nfed, pushed, ptyVars, ioVars>>

NextView ==
    \/ \E data \in ViewChunks : nfed < MaxPush /\ PtyData(data)
    \/ \E n \in 1..MaxScroll : GridScroll(sb_scroll_up(g.scrollback, n))
    \/ \E n \in 1..MaxScroll : GridScroll(sb_scroll_down(g.scrollback, n))
    \/ GridScroll(sb_page_up(g.scrollback, g.rows))
    \/ GridScroll(sb_page_down(g.scrollback, g.rows))
    \/ GridScroll(sb_scroll_to_bottom(g.scrollback))

SpecView == Init /\ [][NextView]_vars

---------------------------------------------------------------------------
(* The scrollback buffer on its own: ScrollbackBuffer::new(max_lines) for  *)
(* a small capacity, driven through its public methods.  pushed holds the  *)
(* lines pushed since the last clear.                                      *)

LineOf(ch) == <<[CellDefault EXCEPT !.ch = ch]>>

InitSB ==
    /\ \E cap \in 1..MaxCap :
          g = [GridNew(1, 1) EXCEPT !.scrollback = ScrollbackNew(cap)]
    /\ pty_size = pty_spawn(1, 1)
    /\ InitRest

SBFrame == UNCHANGED <<parser, bracketed_paste_enabled, nfed, ptyVars, ioVars>>

PushLine(ch) ==
    /\ Len(pushed) < MaxPush
    /\ g' = [g EXCEPT !.scrollback = push_line(g.scrollback, LineOf(ch))]
    /\ pushed' = Append(pushed, LineOf(ch))
    /\ SBFrame

ScrollUp(n) ==
    /\ g' = [g EXCEPT !.scrollback = sb_scroll_up(g.scrollback, n)]
    /\ UNCHANGED pushed /\ SBFrame

ScrollDown(n) ==
    /\ g' = [g EXCEPT !.scrollback = sb_scroll_down(g.scrollback, n)]
    /\ UNCHANGED pushed /\ SBFrame

ScrollToTop ==
    /\ g' = [g EXCEPT !.scrollback = sb_scroll_to_top(g.scrollback)]
    /\ UNCHANGED pushed /\ SBFrame

ScrollToBottom ==
    /\ g' = [g EXCEPT !.scrollback = sb_scroll_to_bottom(g.scrollback)]
    /\ UNCHANGED pushed /\ SBFrame

PageUp(h) ==
    /\ g' = [g EXCEPT !.scrollback = sb_page_up(g.scrollback, h)]
    /\ UNCHANGED pushed /\ SBFrame

PageDown(h) ==
    /\ g' = [g EXCEPT !.scrollback = sb_page_down(g.scrollback, h)]
    /\ UNCHANGED pushed /\ SBFrame

ClearScrollback ==
    /\ g' = [g EXCEPT !.scrollback = sb_clear(g.scrollback)]
    /\ pushed' = <<>>
    /\ SBFrame

NextSB ==
    \/ \E ch \in {97, 98} : PushLine(ch)
    \/ \E n \in 0..MaxScroll : ScrollUp(n)
    \/ \E n \in 0..MaxScroll : ScrollDown(n)
    \/ ScrollToTop
    \/ ScrollToBottom
    \/ \E h \in 1..MaxScroll : PageUp(h)
    \/ \E h \in 1..MaxScroll : PageDown(h)
    \/ ClearScrollback

SpecSB == InitSB /\ [][NextSB]_vars

---------------------------------------------------------------------------
(* The PTY pipeline: the reader thread of PtyHandle::spawn reads chunks    *)
(* from the OS and sends them over the unbounded channel; the thread of    *)
(* spawn_pty_reader forwards each one as a UserEvent::PtyData; the event   *)
(* loop applies it to the grid under the grid mutex and then reads the     *)
(* grid again for the renderer.  A chunk is named by the order in which    *)
(* the OS delivered it, and byte i of chunk c is carried as <<c, i>>.      *)


ChunkBytes(c) == [i \in 1..BytesPerChunk |-> IF i = BytesPerChunk THEN LF ELSE 96 + c]

ChunkTags(c) == [i \in 1..BytesPerChunk |-> <<c, i>>]

ByteOf(tag) == ChunkBytes(tag[1])[tag[2]]

InitPty ==
    /\ g = GridNew(MaxCols, MaxRows)
    /\ pty_size = pty_spawn(MaxRows, MaxCols)
    /\ InitRest

PtyFrame == UNCHANGED <<nfed, pushed, ioVars>>

GridFrame == UNCHANGED <<g, parser, bracketed_paste_enabled>>

(* reader.read(&mut buf) returns Ok(n), n > 0.                             *)
ReaderRead ==
    /\ reader.pc = "read"
    /\ os_read < MaxChunks
    /\ os_read' = os_read + 1
    /\ reader' = [pc |-> "send", data |-> os_read + 1]
    /\ UNCHANGED <<chan, fwd, evq, loop_alive, grid_lock, ev_pc, applying,
                   applied, ev_snap, snap>>
    /\ GridFrame /\ PtyFrame

(* Mutant of ReaderEof: the buffer is sent once more before the break.     *)
ReaderEof_sends_buffer ==
    /\ reader.pc = "read"
    /\ os_read >= 1
    /\ reader' = [pc |-> "done", data |-> 0]
    /\ chan' = Append(chan, os_read)
    /\ UNCHANGED <<os_read, fwd, evq, loop_alive, grid_lock, ev_pc,
                   applying, applied, ev_snap, snap>>
    /\ GridFrame /\ PtyFrame

(* reader.read returns Ok(0) or Err: the thread ends and tx is dropped.    *)
ReaderEof ==
    /\ reader.pc = "read"
    /\ reader' = [pc |-> "done", data |-> 0]
    /\ UNCHANGED <<os_read, chan, fwd, evq, loop_alive, grid_lock, ev_pc,
                   applying, applied, ev_snap, snap>>
    /\ GridFrame /\ PtyFrame

(* Mutant of ReaderSend: the chunk jumps the queue.                        *)
ReaderSend_to_front ==
    /\ reader.pc = "send"
    /\ IF fwd.pc = "done"
       THEN reader' = [pc |-> "done", data |-> 0] /\ UNCHANGED chan
       ELSE /\ chan' = <<reader.data>> \o chan
            /\ reader' = [pc |-> "read", data |-> 0]
    /\ UNCHANGED <<os_read, fwd, evq, loop_alive, grid_lock, ev_pc, applying,
                   applied, ev_snap, snap>>
    /\ GridFrame /\ PtyFrame

(* tx.send(data): fails only when the receiver is gone.                    *)
ReaderSend ==
    /\ reader.pc = "send"
    /\ IF fwd.pc = "done"
       THEN reader' = [pc |-> "done", data |-> 0] /\ UNCHANGED chan
       ELSE /\ chan' = Append(chan, reader.data)
            /\ reader' = [pc |-> "read", data |-> 0]
    /\ UNCHANGED <<os_read, fwd, evq, loop_alive, grid_lock, ev_pc, applying,
                   applied, ev_snap, snap>>
    /\ GridFrame /\ PtyFrame

(* pty_rx.blocking_recv() returns Some(data).                              *)
FwdRecv ==
    /\ fwd.pc = "recv"
    /\ chan # <<>>
    /\ fwd' = [pc |-> "send", data |-> Head(chan)]
    /\ chan' = Tail(chan)
    /\ UNCHANGED <<os_read, reader, evq, loop_alive, grid_lock, ev_pc,
                   applying, applied, ev_snap, snap>>
    /\ GridFrame /\ PtyFrame

(* pty_rx.blocking_recv() returns None: empty channel, sender dropped.     *)
FwdClosed ==
    /\ fwd.pc = "recv"
    /\ chan = <<>>
    /\ reader.pc = "done"
    /\ fwd' = [pc |-> "done", data |-> 0]
    /\ UNCHANGED <<os_read, reader, chan, evq, loop_alive, grid_lock, ev_pc,
                   applying, applied, ev_snap, snap>>
    /\ GridFrame /\ PtyFrame

(* let _ = proxy.send_event(UserEvent::PtyData(data)): the event is lost   *)
(* when the event loop has exited.                                         *)
FwdSend ==
    /\ fwd.pc = "send"
    /\ evq' = IF loop_alive THEN Append(evq, fwd.data) ELSE evq
    /\ fwd' = [pc |-> "recv", data |-> 0]
    /\ UNCHANGED <<os_read, reader, chan, loop_alive, grid_lock, ev_pc,
                   applying, applied, ev_snap, snap>>
    /\ GridFrame /\ PtyFrame

(* The event loop takes the next PtyData event; the handler locks the grid *)
(* and enters advance_bytes_with_bracketed.                                *)
PtyDataBegin ==
    /\ loop_alive
    /\ ev_pc = "idle"
    /\ evq # <<>>
    /\ grid_lock = "free"
    /\ grid_lock' = "apply"
    /\ ev_pc' = "apply"
    /\ applying' = ChunkTags(Head(evq))
    /\ evq' = Tail(evq)
    /\ UNCHANGED <<os_read, reader, chan, fwd, loop_alive, applied, ev_snap,
                   snap>>
    /\ GridFrame /\ PtyFrame

(* Mutant of PtyDataApply: the guard is released after every byte.         *)
PtyDataApply_unlock_each_byte ==
    /\ ev_pc = "apply"
    /\ applying # <<>>
    /\ LET m == advance(Machine, ByteOf(Head(applying)))
       IN /\ g' = m.g
          /\ parser' = m.parser
          /\ bracketed_paste_enabled' = m.bp
    /\ applied' = Append(applied, Head(applying))
    /\ applying' = Tail(applying)
    /\ grid_lock' = "free"
    /\ UNCHANGED <<os_read, reader, chan, fwd, evq, loop_alive, ev_pc,
                   ev_snap, snap>>
    /\ PtyFrame

(* One iteration of `for &b in bytes { parser.advance(&mut p, b) }`, with  *)
(* the grid guard held.                                                    *)
PtyDataApply ==
    /\ ev_pc = "apply"
    /\ grid_lock = "apply"
    /\ applying # <<>>
    /\ LET m == advance(Machine, ByteOf(Head(applying)))
       IN /\ g' = m.g
          /\ parser' = m.parser
          /\ bracketed_paste_enabled' = m.bp
    /\ applied' = Append(applied, Head(applying))
    /\ applying' = Tail(applying)
    /\ UNCHANGED <<os_read, reader, chan, fwd, evq, loop_alive, grid_lock,
                   ev_pc, ev_snap, snap>>
    /\ PtyFrame

(* The loop over the chunk ends and the guard is dropped.                  *)
PtyDataUnlock ==
    /\ ev_pc = "apply"
    /\ applying = <<>>
    /\ grid_lock' = "free"
    /\ ev_pc' = "scroll"
    /\ UNCHANGED <<os_read, reader, chan, fwd, evq, loop_alive, applying,
                   applied, ev_snap, snap>>
    /\ GridFrame /\ PtyFrame

(* Second critical section: scrollback.len() and rows are read to update   *)
(* the scroll position.                                                    *)
PtyDataScroll ==
    /\ ev_pc = "scroll"
    /\ grid_lock = "free"
    /\ ev_snap' = Len(applied)
    /\ ev_pc' = "snapshot"
    /\ UNCHANGED <<os_read, reader, chan, fwd, evq, loop_alive, grid_lock,
                   applying, applied, snap>>
    /\ GridFrame /\ PtyFrame

(* Third critical section: cells, display content and cursor are read for  *)
(* the renderer; the handler returns.                                      *)
PtyDataSnapshot ==
    /\ ev_pc = "snapshot"
    /\ grid_lock = "free"
    /\ ev_snap' = Len(applied)
    /\ ev_pc' = "idle"
    /\ UNCHANGED <<os_read, reader, chan, fwd, evq, loop_alive, grid_lock,
                   applying, applied, snap>>
    /\ GridFrame /\ PtyFrame

(* WindowEvent::RedrawRequested: the grid is read under the lock.          *)
Redraw ==
    /\ loop_alive
    /\ ev_pc = "idle"
    /\ grid_lock = "free"
    /\ snap # Len(applied)
    /\ snap' = Len(applied)
    /\ UNCHANGED <<os_read, reader, chan, fwd, evq, loop_alive, grid_lock,
                   ev_pc, applying, applied, ev_snap>>
    /\ GridFrame /\ PtyFrame

(* WindowEvent::CloseRequested: elwt.exit(); queued events are never       *)
(* handled.                                                                *)
CloseRequested ==
    /\ loop_alive
    /\ ev_pc = "idle"
    /\ loop_alive' = FALSE
    /\ UNCHANGED <<os_read, reader, chan, fwd, evq, grid_lock, ev_pc,
                   applying, applied, ev_snap, snap>>
    /\ GridFrame /\ PtyFrame

NextPty ==
    \/ ReaderRead
    \/ ReaderEof
    \/ ReaderSend
    \/ FwdRecv
    \/ FwdClosed
    \/ FwdSend
    \/ PtyDataBegin
    \/ PtyDataApply
    \/ PtyDataUnlock
    \/ PtyDataScroll
    \/ PtyDataSnapshot
    \/ Redraw
    \/ CloseRequested

SpecPty == InitPty /\ [][NextPty]_vars

(* The pipeline with its threads scheduled: the forwarding thread is an OS *)
(* thread whose blocking_recv returns once a chunk is queued or the sender *)
(* is dropped and whose send_event never blocks, so each of its steps,     *)
(* once enabled, is eventually taken.  When the PTY reports EOF is up to   *)
(* the child process: no fairness is stated for the reader.                *)
SpecPtyLive ==
    /\ InitPty
    /\ [][NextPty]_vars
    /\ WF_vars(FwdRecv)
    /\ WF_vars(FwdSend)
    /\ WF_vars(FwdClosed)

(* PtyHandle::write called from several threads (pty.rs).  Byte i of the   *)
(* data of call c is carried as <<c, i>>; write_all hands the data to the  *)
(* OS in one or more write calls, each taking at least one byte.           *)
CallBytes(c, n) == [i \in 1..n |-> <<c, i>>]

WriteFrame == UNCHANGED <<gridVars, ptyVars, scroll, handler>>

(* A thread calls write(data) with n bytes and reaches self.writer.lock(). *)
WriteCall(t, n) ==
    /\ writers.th[t].pc = "idle"
    /\ writers.ncalls < MaxCalls
    /\ writers' = [writers EXCEPT
          !.ncalls = @ + 1,
          !.th[t] = [pc |-> "lock", call |-> writers.ncalls + 1, len |-> n,
                     left |-> CallBytes(writers.ncalls + 1, n)]]
    /\ UNCHANGED <<pty_out, pty_size>> /\ WriteFrame

(* Mutant of WriterLock: the guard is handed out while another is alive.   *)
WriterLock_no_exclusion(t) ==
    /\ writers.th[t].pc = "lock"
    /\ writers' = [writers EXCEPT !.lock = t, !.th[t].pc = "write"]
    /\ UNCHANGED <<pty_out, pty_size>> /\ WriteFrame

(* self.writer.lock().unwrap() returns the guard.                          *)
WriterLock(t) ==
    /\ writers.th[t].pc = "lock"
    /\ writers.lock = "free"
    /\ writers' = [writers EXCEPT !.lock = t, !.th[t].pc = "write"]
    /\ UNCHANGED <<pty_out, pty_size>> /\ WriteFrame

(* One write of write_all: k of the remaining bytes reach the stream.      *)
WriteAll(t, k) ==
    /\ writers.th[t].pc = "write"
    /\ k \in 1..Len(writers.th[t].left)
    /\ pty_out' = pty_out \o SubSeq(writers.th[t].left, 1, k)
    /\ writers' = [writers EXCEPT
          !.th[t].left = SubSeq(@, k + 1, Len(@))]
    /\ UNCHANGED pty_size /\ WriteFrame

(* write_all is done; writer.flush()? succeeds, Ok(()) is returned and the *)
(* guard is dropped.                                                       *)
WriterFlush(t) ==
    /\ writers.th[t].pc = "write"
    /\ writers.th[t].left = <<>>
    /\ writers' = [writers EXCEPT
          !.lock = "free",
          !.flushed = Len(pty_out),
          !.log = Append(@, [op |-> "write", thread |-> t,
                             call |-> writers.th[t].call,
                             len |-> writers.th[t].len, res |-> "ok"]),
          !.th[t] = [pc |-> "idle", call |-> 0, len |-> 0, left |-> <<>>]]
    /\ UNCHANGED <<pty_out, pty_size>> /\ WriteFrame

(* Mutant of WriteError: the guard outlives the failed call.               *)
WriteError_guard_kept(t) ==
    /\ writers.th[t].pc = "write"
    /\ writers' = [writers EXCEPT
          !.log = Append(@, [op |-> "write", thread |-> t,
                             call |-> writers.th[t].call,
                             len |-> writers.th[t].len, res |-> "err"]),
          !.th[t] = [pc |-> "idle", call |-> 0, len |-> 0, left |-> <<>>]]
    /\ UNCHANGED <<pty_out, pty_size>> /\ WriteFrame

(* A write of write_all or the flush fails: `?` returns the error and the  *)
(* guard is dropped on the way out.                                        *)
WriteError(t) ==
    /\ writers.th[t].pc = "write"
    /\ writers' = [writers EXCEPT
          !.lock = "free",
          !.log = Append(@, [op |-> "write", thread |-> t,
                             call |-> writers.th[t].call,
                             len |-> writers.th[t].len, res |-> "err"]),
          !.th[t] = [pc |-> "idle", call |-> 0, len |-> 0, left |-> <<>>]]
    /\ UNCHANGED <<pty_out, pty_size>> /\ WriteFrame

(* PtyHandle::resize(rows, cols) on the same session, once.                *)
ResizeCall(rows, cols) ==
    /\ \A e \in 1..Len(writers.log) : writers.log[e].op # "resize"
    /\ pty_size' = pty_resize(rows, cols)
    /\ writers' = [writers EXCEPT
          !.log = Append(@, [op |-> "resize", thread |-> "none",
                             call |-> 0, len |-> 0, res |-> "ok"])]
    /\ UNCHANGED pty_out /\ WriteFrame

WriteLens == 0..2

NextWrite ==
    \/ \E t \in WriterThreads : \E n \in WriteLens : WriteCall(t, n)
    \/ \E t \in WriterThreads : WriterLock(t)
    \/ \E t \in WriterThreads : \E k \in 1..2 : WriteAll(t, k)
    \/ \E t \in WriterThreads : WriterFlush(t)
    \/ \E t \in WriterThreads : WriteError(t)
    \/ ResizeCall(1, 1)
    \/ os_read = 0 /\ ReaderRead
    \/ ReaderSend

SpecWrite == InitPty /\ [][NextWrite]_vars

---------------------------------------------------------------------------
(* ScrollbackBuffer::search (scrollback.rs).  A String is modelled as the  *)
(* sequence of its code points; str::len, str::find and the slice          *)
(* search_text[start..] work on the UTF-8 bytes, so their offsets are byte *)
(* offsets and a slice that does not start on a character boundary, or     *)
(* starts past the end, panics.                                            *)

Utf8Len(ch) == IF ch < 128 THEN 1 ELSE IF ch < 2048 THEN 2 ELSE IF ch < 65536 THEN 3 ELSE 4

(* the byte offset of the character with index i: the bytes of s[..i]      *)
RECURSIVE ByteOff(_, _)
ByteOff(s, i) == IF i = 0 THEN 0 ELSE ByteOff(s, i - 1) + Utf8Len(s[i])

StrLen(s) == ByteOff(s, Len(s))

IsCharBoundary(s, b) == \E i \in 0..Len(s) : ByteOff(s, i) = b

(* char::to_lowercase for the characters of the model: ASCII letters fold, *)
(* digits, blanks and CJK ideographs have no case.                         *)
to_lowercase(s) == [i \in 1..Len(s) |-> IF s[i] \in 65..90 THEN s[i] + 32 ELSE s[i]]

(* line.iter().map(|cell| if cell.ch == '\0' { ' ' } else { cell.ch })     *)
line_text(line) == [i \in 1..Len(line) |-> IF line[i].ch = 0 THEN SPACE ELSE line[i].ch]

(* while let Some(pos) = search_text[start..].find(&query_lower) { ... }:   *)
(* start is a byte offset, query_len is query.len() in bytes.              *)
RECURSIVE SearchLine(_, _, _, _, _, _)
SearchLine(search_text, query_lower, query_len, line_idx, start, matches) ==
    IF start > StrLen(search_text) \/ ~IsCharBoundary(search_text, start)
    THEN [matches |-> matches, panicked |-> TRUE]
    ELSE
        LET from == CHOOSE i \in 0..Len(search_text) : ByteOff(search_text, i) = start
            found == { i \in from..(Len(search_text) - Len(query_lower)) :
                          SubSeq(search_text, i + 1, i + Len(query_lower)) = query_lower }
        IN IF found = {} THEN [matches |-> matches, panicked |-> FALSE]
           ELSE LET first == CHOOSE i \in found : \A j \in found : i <= j
                    match_start == ByteOff(search_text, first)
                    match_end == match_start + query_len
                IN SearchLine(search_text, query_lower, query_len, line_idx,
                              match_start + 1,
                              Append(matches, <<line_idx, match_start, match_end>>))

RECURSIVE SearchFrom(_, _, _, _, _)
SearchFrom(sb, query, case_sensitive, line_idx, matches) ==
    IF line_idx >= Len(sb.lines) THEN [matches |-> matches, panicked |-> FALSE]
    ELSE
        LET query_lower == IF ~case_sensitive THEN to_lowercase(query) ELSE query
            text == line_text(sb.lines[line_idx + 1])
            search_text == IF ~case_sensitive THEN to_lowercase(text) ELSE text
            r == SearchLine(search_text, query_lower, StrLen(query), line_idx, 0, matches)
        IN IF r.panicked THEN r
           ELSE SearchFrom(sb, query, case_sensitive, line_idx + 1, r.matches)

search(sb, query, case_sensitive) == SearchFrom(sb, query, case_sensitive, 0, <<>>)

(* A scrollback buffer holding lines of text: rows that scrolled off a     *)
(* screen showing ASCII text in both cases, blanks, empty cells and wide   *)
(* characters, and a line of zero width.                                   *)
SearchLines ==
    { <<97, 97, 97>>, <<97, 65, 97>>, <<65, 97>>, <<98, 97, 98>>, <<0, 97, 0>>,
      <<97, 20024>>, <<20024, 97>>, <<20024, 20024>>, <<98>>, <<0>>, <<>> }

CellsOf(chars) == [i \in 1..Len(chars) |-> [CellDefault EXCEPT !.ch = chars[i]]]

PushText(chars) ==
    /\ nfed < MaxFeeds
    /\ g' = [g EXCEPT !.scrollback = push_line(g.scrollback, CellsOf(chars))]
    /\ nfed' = nfed + 1
    /\ UNCHANGED <<parser, bracketed_paste_enabled, pushed, ptyVars, ioVars>>

NextSearch == \E chars \in SearchLines : PushText(chars)

SpecSearch == InitSB /\ [][NextSearch]_vars

---------------------------------------------------------------------------
(* Properties.                                                             *)

CellAt(gr, r, c) == gr.cells[r * gr.cols + c + 1]
RowOf(gr, r) == [c \in 1..gr.cols |-> CellAt(gr, r, c - 1)]

(* C1: on a grid with cols >= 1 and rows >= 1 the cursor stays within      *)
(* 0 <= x < cols and 0 <= y < rows after every operation, and no           *)
(* operation panics.                                                       *)
C1_CursorInBounds ==
    /\ ~g.panicked
    /\ g.x >= 0 /\ g.x < g.cols
    /\ g.y >= 0 /\ g.y < g.rows

(* The cursor sits in the bottom-right corner of a grid that has more than *)
(* one row and column: it was moved there and clamped.                     *)
C1_Witness ==
    /\ g.cols > 1 /\ g.rows > 1
    /\ g.x = g.cols - 1 /\ g.y = g.rows - 1
    /\ nfed >= 2

(* C2: for any input bytes no cell index outside the cell array is read or *)
(* written (such an access panics), and the array always holds exactly     *)
(* cols * rows cells.                                                      *)
C2_IndexSafety ==
    /\ ~g.panicked
    /\ Len(g.cells) = g.cols * g.rows

(* A truncated CSI sequence is pending in the parser while the bottom row  *)
(* of the grid has been written and the screen has scrolled.               *)
C2_Witness ==
    /\ parser.state \in {"CsiEntry", "CsiParam", "CsiIgnore"}
    /\ Len(g.scrollback.lines) >= 1
    /\ \E i \in 1..Len(g.cells) : g.cells[i].ch # 0

RECURSIVE PutN(_, _, _)
PutN(gr, ch, n) == IF n = 0 THEN gr ELSE PutN(put(gr, ch), ch, n - 1)

(* C3: from column 0 of row y, printing cols width-1 characters and then   *)
(* one more wraps exactly once: the extra character lands at column 0 of   *)
(* the next line (the bottom row after a one-line scroll when y was the    *)
(* last row) and the filled line keeps every character.                    *)
C3_ImplicitWrap ==
    (g.x = 0 /\ ~g.panicked) =>
        LET filled == PutN(g, 97, g.cols)
            after  == put(filled, 98)
            FilledRow == [c \in 1..g.cols |-> 97]
            Chars(line) == [c \in 1..Len(line) |-> line[c].ch]
        IN IF g.y + 1 < g.rows
           THEN /\ CellAt(after, g.y + 1, 0).ch = 98
                /\ Chars(RowOf(after, g.y)) = FilledRow
                /\ after.scrollback = g.scrollback
           ELSE /\ CellAt(after, g.rows - 1, 0).ch = 98
                /\ Len(after.scrollback.lines) = Len(g.scrollback.lines) + 1
                /\ IF g.rows >= 2
                   THEN Chars(RowOf(after, g.rows - 2)) = FilledRow
                   ELSE Chars(after.scrollback.lines[Len(after.scrollback.lines)])
                            = FilledRow

(* Inputs for the chunk-boundary check: text, controls, a multi-byte       *)
(* character, CSI sequences with parameters and a private-mode sequence.   *)
SplitInputs ==
    { <<ESC, 91, 50, 59, 50, 102>>,
      <<228, 184, 184, LF>>,
      <<ESC, 91, 63, 50, 48, 48, 52, 104>>,
      <<97, ESC, 91, 49, 59, 51, 49, 109, 97>> }

RECURSIVE ByteAtATime(_, _, _)
ByteAtATime(m, bytes, i) ==
    IF i > Len(bytes) THEN m
    ELSE ByteAtATime(advance_bytes_with_bracketed(m, <<bytes[i]>>), bytes, i + 1)

(* C4: feeding a byte sequence in one call, one byte per call, or split at *)
(* any position into two calls gives the same grid, parser position and    *)
(* bracketed-paste flag.                                                   *)
C4_ChunkSplitEquivalence ==
    \A bytes \in SplitInputs :
        LET whole == advance_bytes_with_bracketed(Machine, bytes)
        IN /\ ByteAtATime(Machine, bytes, 1) = whole
           /\ \A k \in 0..Len(bytes) :
                 advance_bytes_with_bracketed(
                     advance_bytes_with_bracketed(Machine, SubSeq(bytes, 1, k)),
                     SubSeq(bytes, k + 1, Len(bytes))) = whole

(* An earlier call ended in the middle of a CSI sequence, after its first  *)
(* parameter digits.                                                       *)
C4_Witness ==
    /\ parser.state = "CsiParam"
    /\ parser.param = 9
    /\ nfed = MaxSplitFeeds

(* C5: the scroll offset stays within 0 <= scroll_offset <= number of      *)
(* stored lines after any sequence of scrollback operations.               *)
C5_OffsetInRange ==
    /\ g.scrollback.scroll_offset >= 0
    /\ g.scrollback.scroll_offset <= Len(g.scrollback.lines)

(* C6: the scrollback never holds more than max_lines lines; what it holds *)
(* are the last min(N, max_lines) of the N lines pushed, in push order, so *)
(* its most recent line is the last line pushed.                           *)
C6_CapacityFifo ==
    LET sb == g.scrollback
        n  == Len(pushed)
        k  == Min(n, sb.max_lines)
    IN /\ Len(sb.lines) <= sb.max_lines
       /\ sb.lines = SubSeq(pushed, n - k + 1, n)

(* More lines were pushed than the buffer holds: the oldest were evicted.  *)
C6_Witness ==
    /\ Len(pushed) > g.scrollback.max_lines
    /\ Len(g.scrollback.lines) = g.scrollback.max_lines

(* C7: line_feed above the last row increments y and changes nothing else; *)
(* on the last row it appends the old row 0 to the scrollback, moves every *)
(* row r >= 1 to row r - 1, empties the bottom row and leaves x and y.     *)
C7_LineFeed ==
    ~g.panicked =>
        LET h == lf(g) IN
        IF g.y + 1 < g.rows
        THEN h = [g EXCEPT !.y = g.y + 1]
        ELSE /\ h.scrollback.lines = Append(g.scrollback.lines, RowOf(g, 0))
             /\ \A r \in 1..(g.rows - 1) : RowOf(h, r - 1) = RowOf(g, r)
             /\ RowOf(h, g.rows - 1) = [c \in 1..g.cols |-> CellDefault]
             /\ Len(h.cells) = Len(g.cells)
             /\ [h EXCEPT !.cells = g.cells, !.scrollback = g.scrollback] = g

(* The cursor went down a row and then the screen scrolled: the line that  *)
(* left the top carries a printed character.                               *)
C7_Witness ==
    /\ g.rows >= 2 /\ g.y = g.rows - 1
    /\ Len(g.scrollback.lines) >= 1
    /\ \E c \in 1..Len(g.scrollback.lines[1]) : g.scrollback.lines[1][c].ch # 0

ParamVals == {0, 1, 2, 9}

SgrSamples == { <<0>>, <<1, 31>>, <<38, 2, 9>>, <<48, 5, 9>>, <<107>> }

(* C8: only a line feed on the bottom row adds to the scrollback: erase,   *)
(* cursor movement, SGR, backspace, carriage return, a line feed above the *)
(* bottom row, resize and resize_preserve leave the stored lines (count,   *)
(* order, contents, widths) as they are, and a print or tab can change     *)
(* them only by wrapping on the bottom row.                                *)
C8_ScrollbackFrame ==
    ~g.panicked =>
        LET Same(h) == h.scrollback = g.scrollback
            WrapsAtBottom == g.x >= g.cols /\ g.y + 1 >= g.rows
        IN /\ Same(cr(g))
           /\ Same(backspace(g))
           /\ \A n \in ParamVals :
                 /\ Same(erase_in_display(g, n))
                 /\ Same(erase_in_line(g, n))
                 /\ Same(cursor_up(g, n))
                 /\ Same(cursor_down(g, n))
                 /\ Same(cursor_forward(g, n))
                 /\ Same(cursor_back(g, n))
                 /\ \A k \in ParamVals : Same(cursor_position(g, <<n, k>>))
           /\ \A ps \in SgrSamples : Same(sgr(g, ps, 1))
           /\ \A d \in Dims :
                 /\ Same(resize(g, d[1], d[2]))
                 /\ Same(resize_preserve(g, d[1], d[2]))
           /\ (g.y + 1 < g.rows => Same(lf(g)))
           /\ \A ch \in {97, 20024} : (~Same(put(g, ch)) => WrapsAtBottom)
           /\ (~Same(tab(g)) => WrapsAtBottom)

(* The scrollback holds a line whose width differs from the grid's: the    *)
(* grid was resized after the line scrolled out.                           *)
C8_Witness ==
    /\ Len(g.scrollback.lines) >= 1
    /\ Len(g.scrollback.lines[1]) # g.cols
    /\ \E c \in 1..Len(g.scrollback.lines[1]) : g.scrollback.lines[1][c].ch # 0

RECURSIVE Flatten(_)
Flatten(cs) == IF cs = <<>> THEN <<>> ELSE ChunkTags(Head(cs)) \o Flatten(Tail(cs))

Held(th) == IF th.pc = "send" THEN <<th.data>> ELSE <<>>

UpTo(n) == [c \in 1..n |-> c]

BytesOf(tags) == [i \in 1..Len(tags) |-> ByteOf(tags[i])]

(* C9: while the event loop is alive, the bytes applied to the grid,       *)
(* followed by those still held by the handler, the event queue, the       *)
(* forwarding thread, the channel and the reader thread, are the chunks    *)
(* the reader read from the OS, each once and in read order; and the grid  *)
(* is the result of interpreting the applied bytes in that order.          *)
C9_ChunksInReadOrder ==
    loop_alive =>
        /\ applied \o applying \o Flatten(evq \o Held(fwd) \o chan \o Held(reader))
              = Flatten(UpTo(os_read))
        /\ LET m0 == [g |-> GridNew(MaxCols, MaxRows), parser |-> ParserNew,
                      bp |-> FALSE]
           IN Machine = advance_bytes_with_bracketed(m0, BytesOf(applied))

(* Two chunks have been applied in full while a later one is still in the  *)
(* channel behind them.                                                    *)
C9_Witness ==
    /\ loop_alive
    /\ Len(applied) >= 2 * BytesPerChunk
    /\ chan # <<>>
    /\ os_read >= 3

AtBoundary(n) == n = 0 \/ applied[n][2] = BytesPerChunk

(* C10: whenever the grid is between two bytes of one chunk the grid lock  *)
(* is held by the handler applying that chunk, the handler holds the lock  *)
(* for as long as it has bytes left to apply, and every snapshot read saw  *)
(* the grid at a chunk boundary.                                           *)
C10_ChunkAtomic ==
    /\ (~AtBoundary(Len(applied)) => grid_lock = "apply")
    /\ (applying # <<>> => grid_lock = "apply")
    /\ AtBoundary(snap)
    /\ AtBoundary(ev_snap)

(* A redraw has read the grid after one chunk, and the next chunk is now   *)
(* half applied under the lock.                                            *)
C10_Witness ==
    /\ snap >= BytesPerChunk
    /\ ev_snap >= BytesPerChunk
    /\ grid_lock = "apply"
    /\ ~AtBoundary(Len(applied))
    /\ Len(applied) > snap

IsSuffix(s, t) == \E k \in 0..Len(t) : s = SubSeq(t, k + 1, Len(t))

(* C11: the step in which the reader sees a zero-byte read, a read error   *)
(* or a failed send ends the reader thread for good; from that step on no  *)
(* chunk is read or put on the channel (the channel only drains), and the  *)
(* forwarding thread eventually ends as well.                              *)
C11_ReaderTermination ==
    /\ [][reader'.pc = "done" =>
              /\ IsSuffix(chan', chan)
              /\ os_read' = os_read
              /\ (reader.pc = "done" => reader' = reader)]_vars
    /\ (reader.pc = "done" ~> fwd.pc = "done")

(* Both threads have ended after chunks went through: the reader stopped   *)
(* with chunks still queued and the forwarder delivered them first.        *)
C11_Witness ==
    /\ reader.pc = "done"
    /\ fwd.pc = "done"
    /\ chan = <<>>
    /\ os_read >= 2
    /\ Len(applied) = os_read * BytesPerChunk

(* Extended-colour SGR sequences that are incomplete or malformed:         *)
(* ESC[38m, ESC[38;9m, ESC[38;5m, ESC[38;2;9m, ESC[48;2;9;9m.              *)
MalformedColorInputs ==
    { <<ESC, 91, 51, 56, 109>>,
      <<ESC, 91, 51, 56, 59, 57, 109>>,
      <<ESC, 91, 51, 56, 59, 53, 109>>,
      <<ESC, 91, 51, 56, 59, 50, 59, 57, 109>>,
      <<ESC, 91, 52, 56, 59, 50, 59, 57, 59, 57, 109>> }

(* C12: a malformed or incomplete extended-colour SGR sequence leaves the  *)
(* current foreground and background colours as they were.                 *)
C12_MalformedColorIgnored ==
    (parser.state = "Ground" /\ ~g.panicked) =>
        \A bytes \in MalformedColorInputs :
            LET h == advance_bytes_with_bracketed(Machine, bytes).g
            IN /\ h.current_fg = g.current_fg
               /\ h.current_bg = g.current_bg

ViewportHeights == 0..MaxScroll

(* C13: a push while the buffer is scrolled (offset > 0) leaves the lines  *)
(* get_visible_lines(h) returns unchanged, for every viewport height h.    *)
C13_ScrolledViewStationary ==
    g.scrollback.scroll_offset > 0 =>
        \A h \in ViewportHeights : \A ch \in {97, 98} :
            get_visible_lines(push_line(g.scrollback, LineOf(ch)), h)
                = get_visible_lines(g.scrollback, h)

(* Lines lo+1 .. hi of a sequence, empty when the range is.                *)
Range(s, lo, hi) == IF hi <= lo THEN <<>> ELSE SubSeq(s, lo + 1, hi)

(* C14: with L stored lines, get_visible_lines(h) returns the lines with   *)
(* indices max(0, L - offset - h) .. L - offset - 1, oldest first, and so  *)
(* never a line newer than index L - offset - 1.                           *)
C14_VisibleWindow ==
    LET sb == g.scrollback
        L  == Len(sb.lines)
    IN \A h \in ViewportHeights :
          get_visible_lines(sb, h)
              = Range(sb.lines, SatSub(SatSub(L, sb.scroll_offset), h),
                      SatSub(L, sb.scroll_offset))

RoundTrip(sb, k) == sb_scroll_down(sb_scroll_up(sb, k), k).scroll_offset

(* C15 as stated: scroll_up(k) followed by scroll_down(k) returns the      *)
(* offset to its prior value, also when the scroll_up was clamped.         *)
C15_RoundTripRestores ==
    \A k \in 0..MaxScroll : RoundTrip(g.scrollback, k) = g.scrollback.scroll_offset

(* C15, amended: scroll_up(k) followed by scroll_down(k) returns the       *)
(* offset to its prior value when offset + k <= length (nothing was        *)
(* clamped); otherwise it leaves max(0, length - k), which is the prior    *)
(* value only when that was 0 and k >= length.                             *)
C15_RoundTripClamped ==
    LET sb == g.scrollback IN
    \A k \in 0..MaxScroll :
        RoundTrip(sb, k) = IF sb.scroll_offset + k <= Len(sb.lines)
                           THEN sb.scroll_offset
                           ELSE SatSub(Len(sb.lines), k)

(* A buffer scrolled part of the way up, for which some k is clamped by    *)
(* scroll_up and the round trip ends below where it started.               *)
C15_Witness ==
    /\ g.scrollback.scroll_offset > 0
    /\ g.scrollback.scroll_offset < Len(g.scrollback.lines)
    /\ \E k \in 0..MaxScroll :
          RoundTrip(g.scrollback, k) < g.scrollback.scroll_offset

(* The dimensions a grid can shrink to.                                    *)
Shrinks(gr) == { d \in Dims : d[1] <= gr.cols /\ d[2] <= gr.rows }

ShrinkGrow(gr, d) == resize_preserve(resize_preserve(gr, d[1], d[2]), gr.cols, gr.rows)

(* C16 as stated: resize_preserve to the current dimensions changes        *)
(* nothing, and after a shrink and a grow back every character of the      *)
(* bottom-right-aligned intersection (last rows, last columns) is where    *)
(* and what it was.                                                        *)
C16_RoundTripBottomRight ==
    ~g.panicked =>
        /\ resize_preserve(g, g.cols, g.rows) = g
        /\ \A d \in Shrinks(g) :
              \A r \in (g.rows - d[2])..(g.rows - 1) :
                 \A c \in (g.cols - d[1])..(g.cols - 1) :
                    CellAt(ShrinkGrow(g, d), r, c).ch = CellAt(g, r, c).ch

(* C16, amended: resize_preserve to the current dimensions changes         *)
(* nothing, and after a shrink and a grow back every cell of the           *)
(* bottom-left-aligned intersection (last rows, first columns) is where    *)
(* and what it was.                                                        *)
C16_RoundTripBottomLeft ==
    ~g.panicked =>
        /\ resize_preserve(g, g.cols, g.rows) = g
        /\ \A d \in Shrinks(g) :
              \A r \in (g.rows - d[2])..(g.rows - 1) :
                 \A c \in 0..(d[1] - 1) :
                    CellAt(ShrinkGrow(g, d), r, c) = CellAt(g, r, c)

(* A grid with a character at the start of its bottom row and one outside  *)
(* the part a shrink in both directions keeps: the round trip keeps the    *)
(* first and loses the second.                                             *)
C16_Witness ==
    /\ g.cols >= 2 /\ g.rows >= 2
    /\ CellAt(g, g.rows - 1, 0).ch # 0
    /\ \E d \in Shrinks(g) :
          /\ d[1] < g.cols /\ d[2] < g.rows
          /\ ShrinkGrow(g, d) # g
          /\ CellAt(ShrinkGrow(g, d), g.rows - 1, 0).ch # 0

(* C17 as stated: resize_preserve copies the bottom-right-aligned         *)
(* intersection: the last rows and the last columns are kept, every other  *)
(* new cell is empty, and shrinking to one row keeps the old bottom row.   *)
C17_CopiesBottomRight ==
    ~g.panicked =>
        \A d \in Dims :
            LET h  == resize_preserve(g, d[1], d[2])
                kr == Min(g.rows, d[2])
                kc == Min(g.cols, d[1])
            IN \A r \in 0..(d[2] - 1) : \A c \in 0..(d[1] - 1) :
                  CellAt(h, r, c).ch =
                      IF r >= d[2] - kr /\ c >= d[1] - kc
                      THEN CellAt(g, g.rows - d[2] + r, g.cols - d[1] + c).ch
                      ELSE 0

(* C17, amended: resize_preserve copies the bottom-left-aligned            *)
(* intersection: the last rows and the first columns are kept at the       *)
(* bottom left of the new grid, every other new cell is an empty default   *)
(* cell, and shrinking to one row keeps exactly the old bottom row.        *)
C17_CopiesBottomLeft ==
    ~g.panicked =>
        /\ \A d \in Dims :
              LET h  == resize_preserve(g, d[1], d[2])
                  kr == Min(g.rows, d[2])
                  kc == Min(g.cols, d[1])
              IN /\ h.cols = d[1] /\ h.rows = d[2]
                 /\ Len(h.cells) = d[1] * d[2]
                 /\ \A r \in 0..(d[2] - 1) : \A c \in 0..(d[1] - 1) :
                       CellAt(h, r, c) =
                           IF r >= d[2] - kr /\ c < kc
                           THEN CellAt(g, g.rows - d[2] + r, c)
                           ELSE CellDefault
        /\ RowOf(resize_preserve(g, g.cols, 1), 0) = RowOf(g, g.rows - 1)

(* A grid with characters on its top and on its bottom row: shrinking it   *)
(* to one row drops the first and keeps the second.                        *)
C17_Witness ==
    /\ g.rows >= 2 /\ g.cols >= 2
    /\ \E c \in 0..(g.cols - 1) : CellAt(g, 0, c).ch # 0
    /\ \E c \in 0..(g.cols - 1) :
          /\ CellAt(g, g.rows - 1, c).ch # 0
          /\ CellAt(resize_preserve(g, g.cols, 1), 0, c).ch # 0

(* ESC[?2004h and ESC[?2004l, alone and with a second mode.                *)
SetPaste   == { <<ESC, 91, 63, 50, 48, 48, 52, 104>>,
                <<ESC, 91, 63, 50, 53, 59, 50, 48, 48, 52, 104>> }
ResetPaste == { <<ESC, 91, 63, 50, 48, 48, 52, 108>>,
                <<ESC, 91, 63, 50, 48, 48, 52, 59, 50, 53, 108>> }

(* Private-mode sequences that are neither: ESC[?25h, ESC[?25l, ESC[?1h,   *)
(* ESC[?2004J (mode 2004, final byte neither h nor l).                     *)
OtherPrivate == { <<ESC, 91, 63, 50, 53, 104>>,
                  <<ESC, 91, 63, 50, 53, 108>>,
                  <<ESC, 91, 63, 49, 104>>,
                  <<ESC, 91, 63, 50, 48, 48, 52, 74>> }

(* C18: the bracketed-paste flag is false at the start, becomes true on    *)
(* CSI ? 2004 h and false on CSI ? 2004 l, and no other private-mode       *)
(* sequence changes it, so it always shows the polarity of the last        *)
(* CSI ? 2004 h/l; no private-mode sequence changes the grid.              *)
C18_PasteFlagPolarity ==
    /\ (nfed = 0 => bracketed_paste_enabled = FALSE)
    /\ (parser.state = "Ground" /\ ~g.panicked) =>
          /\ \A s \in SetPaste : advance_bytes_with_bracketed(Machine, s).bp = TRUE
          /\ \A s \in ResetPaste : advance_bytes_with_bracketed(Machine, s).bp = FALSE
          /\ \A s \in OtherPrivate :
                advance_bytes_with_bracketed(Machine, s).bp = bracketed_paste_enabled
          /\ \A s \in SetPaste \cup ResetPaste \cup OtherPrivate :
                advance_bytes_with_bracketed(Machine, s).g = g

WIDE == 20024

(* C21: a width-2 character printed with the cursor on the last column is  *)
(* not split: it is placed at column 0 of the following line (the bottom   *)
(* row after a one-line scroll when the cursor was on the last row) and    *)
(* the cell under the cursor is left alone; a width-2 character that fits  *)
(* moves the cursor two columns on from where it was placed.               *)
C21_WideCharNotSplit ==
    (~g.panicked /\ g.cols >= 2) =>
        LET h == put(g, WIDE) IN
        /\ g.x = g.cols - 1 =>
              /\ ~h.panicked
              /\ CellAt(h, Min(g.y + 1, g.rows - 1), 0).ch = WIDE
              /\ (g.y + 1 < g.rows => CellAt(h, g.y, g.x) = CellAt(g, g.y, g.x))
        /\ g.x + 2 < g.cols =>
              /\ CellAt(h, g.y, g.x).ch = WIDE
              /\ h.x = g.x + 2

(* C22: on a zero-sized grid (cols = 0 or rows = 0) print, tab, erase,     *)
(* line feed and cursor movement complete without an out-of-bounds access  *)
(* and without an unsigned underflow.                                      *)
C22_ZeroGridSafe ==
    ((g.cols = 0 \/ g.rows = 0) /\ ~g.panicked) =>
        /\ ~put(g, 97).panicked
        /\ ~tab(g).panicked
        /\ ~lf(g).panicked
        /\ \A n \in ParamVals :
              /\ ~erase_in_display(g, n).panicked
              /\ ~erase_in_line(g, n).panicked
              /\ ~cursor_up(g, n).panicked
              /\ ~cursor_down(g, n).panicked
              /\ ~cursor_forward(g, n).panicked
              /\ ~cursor_back(g, n).panicked

Queries == { <<97>>, <<97, 97>>, <<65>>, <<WIDE>>, <<97, WIDE>> }

(* the occurrences of q in text from character position i on, as tuples    *)
(* (line, start, end) of character offsets                                 *)
RECURSIVE Occurrences(_, _, _, _)
Occurrences(text, q, line, i) ==
    IF i + Len(q) > Len(text) THEN <<>>
    ELSE (IF SubSeq(text, i + 1, i + Len(q)) = q
          THEN << <<line, i, i + Len(q)>> >> ELSE <<>>)
         \o Occurrences(text, q, line, i + 1)

RECURSIVE AllOccurrences(_, _, _, _)
AllOccurrences(lines, q, cs, line) ==
    IF line >= Len(lines) THEN <<>>
    ELSE LET shown == line_text(lines[line + 1])
         IN Occurrences(IF cs THEN shown ELSE to_lowercase(shown),
                        IF cs THEN q ELSE to_lowercase(q), line, 0)
            \o AllOccurrences(lines, q, cs, line + 1)

(* C23: search(query, case_sensitive) returns one tuple (line_index,       *)
(* match_start, match_end) for every position at which the query occurs in *)
(* a stored line, overlapping occurrences included, in line order then     *)
(* position order, in character offsets with match_end - match_start the   *)
(* query's length in characters; without case_sensitive, case is ignored.  *)
C23_SearchAllOccurrences ==
    \A q \in Queries : \A cs \in BOOLEAN :
        LET r == search(g.scrollback, q, cs)
        IN /\ ~r.panicked
           /\ r.matches = AllOccurrences(g.scrollback.lines, q, cs, 0)

(* the attributes a print would give a cell now                            *)
CurrentCell(gr, ch) ==
    [ch |-> ch, fg |-> gr.current_fg, bg |-> gr.current_bg,
     bold |-> gr.current_bold, italic |-> gr.current_italic,
     underline |-> gr.current_underline]

C25_DefaultColourDistinct ==
    ~g.panicked =>
        /\ \A n \in 0..255 : ColorDefault # from_ansi(n)
        /\ sgr(g, <<39>>, 1).current_fg # sgr(g, <<37>>, 1).current_fg
        /\ sgr(g, <<0>>, 1).current_bg = BLACK
        /\ sgr(g, <<49>>, 1).current_bg = BLACK
        /\ \A d \in Dims : GridNew(d[1], d[2]).current_bg = BLACK
        /\ \A d \in Dims : \A i \in 1..(d[1] * d[2]) :
              GridNew(d[1], d[2]).cells[i].bg = BLACK
        /\ \A i \in 1..Len(g.cells) : clear_all(g).cells[i].bg = BLACK

(* C26: colour lookup is total over the 256 indices without 8-bit          *)
(* overflow: 16..231 map to (51*((n-16) div 36), 51*(((n-16) div 6) mod    *)
(* 6), 51*((n-16) mod 6)), 232..255 to gray = 8 + 10*(n-232) on the three  *)
(* channels, every intermediate and result lies in 0..255, 196 gives       *)
(* (255,0,0) and 244 gives (128,128,128).                                  *)
C26_ColourLookupTotal ==
    /\ \A n \in 0..U8_MAX :
          LET c  == from_ansi(n)
              fg == advance_bytes_with_bracketed(Machine, IndexedColour(38, n)).g.current_fg
              bg == advance_bytes_with_bracketed(Machine, IndexedColour(48, n)).g.current_bg
          IN /\ \A k \in 1..3 : c[k] \in 0..U8_MAX
             /\ n \in 16..231 =>
                   /\ c = <<51 * ((n - 16) \div 36), 51 * (((n - 16) \div 6) % 6),
                            51 * ((n - 16) % 6)>>
                   /\ 51 * ((n - 16) \div 36) <= U8_MAX
             /\ n \in 232..U8_MAX =>
                   /\ c = <<8 + 10 * (n - 232), 8 + 10 * (n - 232), 8 + 10 * (n - 232)>>
                   /\ 10 * (n - 232) <= U8_MAX /\ 8 + 10 * (n - 232) <= U8_MAX
             /\ (parser.state = "Ground" /\ ~g.panicked) => (fg = c /\ bg = c)
    /\ from_ansi(196) = <<255, 0, 0>>
    /\ from_ansi(244) = <<128, 128, 128>>

(* ESC[38;5;196m has been interpreted: the foreground is the last red of   *)
(* the colour cube.                                                        *)
C26_Witness ==
    /\ nfed = 1 /\ parser.state = "Ground"
    /\ g.current_fg = <<255, 0, 0>>

(* C27: erase_in_display sets exactly the named cells to the empty default *)
(* and nothing else: mode 0 the cursor cell through the last cell of the   *)
(* screen, mode 1 the first cell through the cursor cell inclusive, mode 2 *)
(* every cell; modes 0 and 1 leave the cursor, mode 2 homes it to (0,0);   *)
(* any other mode changes nothing.                                         *)
C27_EraseInDisplay ==
    ~g.panicked =>
        \A n \in ParamVals :
            LET h   == erase_in_display(g, n)
                cur == g.y * g.cols + g.x
                Cleared(i) == \/ n = 0 /\ i >= cur
                              \/ n = 1 /\ i <= cur
                              \/ n = 2
            IN /\ ~h.panicked
               /\ Len(h.cells) = Len(g.cells)
               /\ \A i \in 0..(Len(g.cells) - 1) :
                     h.cells[i + 1] = IF Cleared(i) THEN CellDefault ELSE g.cells[i + 1]
               /\ h.x = (IF n = 2 THEN 0 ELSE g.x)
               /\ h.y = (IF n = 2 THEN 0 ELSE g.y)
               /\ [h EXCEPT !.cells = g.cells, !.x = g.x, !.y = g.y] = g
               /\ parser.state = "Ground" =>
                     advance_bytes_with_bracketed(Machine, <<ESC, 91, 48 + n, 74>>).g = h

(* The cursor stands between two printed cells on a screen of two rows:    *)
(* modes 0 and 1 each have a printed cell to clear and one to keep.        *)
C27_Witness ==
    /\ ~g.panicked /\ g.rows > 1
    /\ \E i \in 1..Len(g.cells) : i - 1 < g.y * g.cols + g.x /\ g.cells[i].ch # 0
    /\ \E i \in 1..Len(g.cells) : i - 1 > g.y * g.cols + g.x /\ g.cells[i].ch # 0

(* C28: erase_in_line changes only cells of the cursor's row (mode 0:      *)
(* columns x..cols-1, mode 1: columns 0..x inclusive, mode 2: the whole    *)
(* row) and leaves the cursor position, the current attributes, every      *)
(* other row and the scrollback unchanged.                                 *)
C28_EraseInLineFrame ==
    ~g.panicked =>
        \A n \in ParamVals :
            LET h == erase_in_line(g, n)
                Cleared(c) == \/ n = 0 /\ c >= g.x
                              \/ n = 1 /\ c <= g.x
                              \/ n = 2
            IN /\ ~h.panicked
               /\ Len(h.cells) = Len(g.cells)
               /\ \A r \in 0..(g.rows - 1) : r # g.y => RowOf(h, r) = RowOf(g, r)
               /\ \A c \in 0..(g.cols - 1) :
                     CellAt(h, g.y, c) = IF Cleared(c) THEN CellDefault
                                         ELSE CellAt(g, g.y, c)
               /\ [h EXCEPT !.cells = g.cells] = g
               /\ parser.state = "Ground" =>
                     advance_bytes_with_bracketed(Machine, <<ESC, 91, 48 + n, 75>>).g = h

(* The cursor is on the second row with a printed cell in its own row and  *)
(* another in the row above.                                               *)
C28_Witness ==
    /\ ~g.panicked /\ g.y = 1
    /\ \E c \in 0..(g.cols - 1) : CellAt(g, 1, c).ch # 0
    /\ \E c \in 0..(g.cols - 1) : CellAt(g, 0, c).ch # 0

(* C29: cursor positioning never wraps: CUP (row, col) puts the cursor at  *)
(* (min(max(col,1),cols)-1, min(max(row,1),rows)-1) for any parameters,    *)
(* 0 and values beyond the grid included; cursor up/back by n land at      *)
(* max(0, pos - n), cursor down/forward by n at min(limit - 1, pos + n);   *)
(* none of these commands changes a cell.                                  *)
C29_CursorPositioning ==
    ~g.panicked =>
        LET Hi(a, b) == IF a > b THEN a ELSE b
            Fed(bytes) == advance_bytes_with_bracketed(Machine, bytes).g
        IN \A n \in ParamVals :
            /\ cursor_up(g, n) = [g EXCEPT !.y = Hi(0, g.y - n)]
            /\ cursor_back(g, n) = [g EXCEPT !.x = Hi(0, g.x - n)]
            /\ cursor_down(g, n) = [g EXCEPT !.y = Min(g.rows - 1, g.y + n)]
            /\ cursor_forward(g, n) = [g EXCEPT !.x = Min(g.cols - 1, g.x + n)]
            /\ \A k \in ParamVals :
                  LET at == [g EXCEPT !.x = Min(Hi(k, 1), g.cols) - 1,
                                      !.y = Min(Hi(n, 1), g.rows) - 1]
                  IN /\ cursor_position(g, <<n, k>>) = at
                     /\ parser.state = "Ground" =>
                           /\ Fed(<<ESC, 91, 48 + n, 59, 48 + k, 72>>) = at
                           /\ Fed(<<ESC, 91, 48 + n, 59, 48 + k, 102>>) = at
            /\ parser.state = "Ground" =>
                  /\ Fed(<<ESC, 91, 48 + n, 65>>) = cursor_up(g, n)
                  /\ Fed(<<ESC, 91, 48 + n, 66>>) = cursor_down(g, n)
                  /\ Fed(<<ESC, 91, 48 + n, 67>>) = cursor_forward(g, n)
                  /\ Fed(<<ESC, 91, 48 + n, 68>>) = cursor_back(g, n)

(* The cursor stands at (1,1), away from the edges it can be moved to, on  *)
(* a screen with a printed cell.                                           *)
C29_Witness ==
    /\ ~g.panicked /\ parser.state = "Ground"
    /\ g.x = 1 /\ g.y = 1 /\ g.cols > 2
    /\ \E i \in 1..Len(g.cells) : g.cells[i].ch # 0

(* C30: after the bytes 'H','i',CR,LF,ESC[31m,'R','e','d',ESC[0m on a      *)
(* fresh 80x25 grid the cursor is at (x=3, y=1), row 0 starts with 'H','i',*)
(* row 1 starts with 'R','e','d', exactly those three cells have the       *)
(* foreground ANSI red, and the scrollback still holds no line.            *)
C30_HelloRed ==
    nfed = Len(HelloInput) =>
        /\ ~g.panicked
        /\ g.x = 3 /\ g.y = 1
        /\ CellAt(g, 0, 0).ch = 72 /\ CellAt(g, 0, 1).ch = 105
        /\ CellAt(g, 1, 0).ch = 82 /\ CellAt(g, 1, 1).ch = 101
        /\ CellAt(g, 1, 2).ch = 100
        /\ \A r \in 0..(g.rows - 1) : \A c \in 0..(g.cols - 1) :
              (CellAt(g, r, c).fg = RED) <=> (r = 1 /\ c <= 2)
        /\ Len(g.scrollback.lines) = 0

(* The whole input has been interpreted on the 80x25 grid.                 *)
C30_Witness ==
    /\ nfed = Len(HelloInput)
    /\ g.cols = 80 /\ g.rows = 25
    /\ parser.state = "Ground"

(* C33: executing a tab terminates and leaves the cursor at column         *)
(* min((x div 8 + 1) * 8, cols - 1) of the same row, for every starting    *)
(* column x and every cols >= 1; it never moves to another row and never   *)
(* scrolls.                                                                *)
C33_TabStops ==
    ~g.panicked =>
        LET h == tab(g) IN
        /\ ~h.panicked
        /\ h.x = Min(((g.x \div 8) + 1) * 8, g.cols - 1)
        /\ h.y = g.y
        /\ h.scrollback = g.scrollback
        /\ \A r \in 0..(g.rows - 1) : r # g.y => RowOf(h, r) = RowOf(g, r)
        /\ g.x < g.cols - 1 => put(g, SPACE).x = g.x + 1
        /\ parser.state = "Ground" =>
              advance_bytes_with_bracketed(Machine, <<TAB>>).g = h

(* The cursor is past the first tab stop and short of the second, on a     *)
(* grid wide enough to hold the second: the tab goes to column 16.         *)
C33_Witness ==
    /\ ~g.panicked /\ parser.state = "Ground"
    /\ g.x > 8 /\ g.x < 16 /\ g.cols > 17 /\ g.y = 1

(* Final bytes of a CSI sequence other than 'h' and 'l'.                   *)
OtherFinals == {64, 74, 99, 109, 110, 112, 126}

(* C40: a DEC private-mode sequence naming mode 2004 whose final byte is   *)
(* neither 'h' nor 'l' leaves the bracketed-paste flag unchanged.          *)
C40_OtherFinalKeepsPasteFlag ==
    (parser.state = "Ground" /\ ~g.panicked) =>
          \A c \in OtherFinals :
              advance_bytes_with_bracketed(Machine,
                  <<ESC, 91, 63, 50, 48, 48, 52, c>>).bp = bracketed_paste_enabled

(* Sequences the performer has no arm for: CSI with other final bytes,     *)
(* with and without intermediates, OSC ended by BEL and by ST, DCS, and    *)
(* ESC dispatches.                                                         *)
UnsupportedOther ==
    { <<ESC, 91, 53, 110>>, <<ESC, 91, 50, 32, 113>>, <<ESC, 91, 52, 104>>,
      <<ESC, 91, 63, 50, 53, 104>>, <<ESC, 91, 49, 59, 50, 114>>,
      <<ESC, 93, 48, 59, 97, 7>>, <<ESC, 93, 48, 59, 97, ESC, 92>>,
      <<ESC, 80, 49, 113, 97, ESC, 92>>,
      <<ESC, 55>>, <<ESC, 40, 66>>, <<ESC, 61>> }

Unsupported == UnsupportedOther \cup { <<ESC, 91, 63, 50, 48, 48, 52, 110>> }

Followers == { <<97>>, <<LF>>, <<ESC, 91, 72>>, <<ESC, 91, 49, 109, 97>> }

SequenceIgnored(s) ==
    LET m1 == advance_bytes_with_bracketed(Machine, s) IN
    /\ m1.g = g
    /\ m1.bp = bracketed_paste_enabled
    /\ m1.parser.state = "Ground"
    /\ \A f \in Followers :
          LET a == advance_bytes_with_bracketed(Machine, s \o f)
              b == advance_bytes_with_bracketed(Machine, f) IN
          a.g = b.g /\ a.bp = b.bp /\ a.parser.state = b.parser.state

(* C34: an unsupported sequence leaves cells, cursor, attributes,          *)
(* scrollback and the bracketed-paste flag unchanged, and the bytes after  *)
(* its terminator are interpreted as if the sequence had not been there.   *)
C34_UnsupportedIgnored ==
    (parser.state = "Ground" /\ ~g.panicked) =>
        \A s \in Unsupported : SequenceIgnored(s)

(* The number of lines of a text: its newlines.                            *)
LineCount(s) == Cardinality({ i \in 1..Len(s) : s[i] = 10 })

(* C35: the display content is the live grid rows at scroll offset 0; when *)
(* scrolled it is the scrollback viewport lines followed, only if the      *)
(* history is shorter than the viewport, by the live grid rows that fill   *)
(* the remainder, so it always has exactly rows lines.                     *)
C35_DisplayContent ==
    ~g.panicked =>
        LET d   == get_display_content(g)
            vis == get_visible_lines(g.scrollback, g.rows)
        IN /\ g.scrollback.scroll_offset = 0 => d = to_string_lines(g)
           /\ g.scrollback.scroll_offset > 0 =>
                 d = LinesText(vis)
                     \o (IF Len(g.scrollback.lines) < g.rows
                         THEN LinesText(GridRows(g, 0, g.rows - Len(vis)))
                         ELSE <<>>)
           /\ LineCount(d) = g.rows


(* A second grid, never fed before, and the bytes fed to it.               *)
OtherGrid == GridNew(MaxCols, MaxRows)

OtherBytes == { <<97>>, <<72>>, <<50, 74>>, <<ESC, 91, 72, 97>>, <<184, 173>> }

(* C36: the interpreter keeps no state shared between grids: feeding bytes *)
(* to a grid B after a truncated sequence was fed to grid A gives B the    *)
(* result it has when A was never fed.                                     *)
C36_NoStateSharedBetweenGrids ==
    ~g.panicked =>
        \A bytes \in OtherBytes :
            advance_bytes_with_bracketed(
                [g |-> OtherGrid, parser |-> parser, bp |-> FALSE], bytes).g
            = advance_bytes_with_bracketed(
                [g |-> OtherGrid, parser |-> ParserNew, bp |-> FALSE], bytes).g

(* Queries with one-byte and multi-byte characters, and the empty query.   *)
AnyQueries == Queries \cup { <<>>, <<98>>, <<WIDE, WIDE>> }

(* C37: search returns normally for every query and every buffer content,  *)
(* the empty query, zero-width lines and multi-byte characters included:   *)
(* it never slices past the end of a line or inside a character.           *)
C37_SearchReturns ==
    \A q \in AnyQueries : \A cs \in BOOLEAN :
        ~search(g.scrollback, q, cs).panicked


(* C39: top_abs never exceeds max_top, the scrollback length, when a       *)
(* redraw is processed, for every interleaving of PTY data, scrolling,     *)
(* resize and clear-scrollback events: the subtraction max_top - top_abs   *)
(* of the redraw handler never underflows.                                 *)
C39_ViewportWithinHistory ==
    /\ ~scroll.underflow
    /\ \A inertia \in {-1, 0, 1} : \A stops \in BOOLEAN :
          ~redraw_scroll(scroll, g, inertia, stops).underflow

(* C38: no event handler tries to acquire a mutex (renderer, grid, scroll  *)
(* state) that it already holds; in particular the recovery path after a   *)
(* lost or outdated surface resizes the renderer without the guard taken   *)
(* for render_frame still held.                                            *)
C38_NoSelfRelock == handler.relock = "none"


(* C31: every PtyHandle::write call appends its bytes contiguously to the  *)
(* PTY input stream and flushes before returning: with concurrent writes   *)
(* the bytes of one call are never interleaved with those of another.      *)
C31_WritesNotInterleaved ==
    /\ \A i \in 1..Len(pty_out) : \A j \in i..Len(pty_out) :
          pty_out[i][1] = pty_out[j][1] =>
              /\ pty_out[j][2] = pty_out[i][2] + (j - i)
              /\ \A k \in i..j : pty_out[k][1] = pty_out[i][1]
    /\ \A e \in 1..Len(writers.log) :
          LET c == writers.log[e] IN
          (c.op = "write" /\ c.res = "ok") =>
              \A k \in 1..c.len :
                  \E i \in 1..writers.flushed : pty_out[i] = <<c.call, k>>

(* One thread has written the first of its two bytes while the other       *)
(* thread's call waits for the writer mutex.                               *)
C31_Witness ==
    /\ writers.th["t1"].pc = "write"
    /\ writers.th["t1"].len = 2 /\ Len(writers.th["t1"].left) = 1
    /\ writers.th["t2"].pc = "lock" /\ writers.th["t2"].len = 2

(* C32: a failing PTY write is returned to the caller as an error value    *)
(* and leaves the session usable: the writer lock is released, the reader  *)
(* and the channel are unaffected, and a later write or resize on the same *)
(* session can still succeed.                                              *)
C32_FailedWriteLeavesSessionUsable ==
    /\ [](\A t \in WriterThreads :
             (writers.lock = t) <=> (writers.th[t].pc = "write"))
    /\ [][\A t \in WriterThreads :
             (writers.th[t].pc = "write" /\ writers'.th[t].pc = "idle") =>
                 /\ writers'.lock = "free"
                 /\ writers'.log[Len(writers'.log)].call = writers.th[t].call
                 /\ writers'.log[Len(writers'.log)].res \in {"ok", "err"}
                 /\ (writers.th[t].left # <<>> =>
                        writers'.log[Len(writers'.log)].res = "err")
                 /\ ptyVars' = ptyVars
                 /\ pty_size' = pty_size
                 /\ pty_out' = pty_out]_vars

(* A write failed, a later write of two bytes on the same session          *)
(* succeeded, the PTY was resized after that, and the reader has delivered *)
(* a chunk to the channel.                                                 *)
C32_Witness ==
    /\ Len(writers.log) = 3
    /\ writers.log[1].op = "write" /\ writers.log[1].res = "err"
    /\ writers.log[2].op = "write" /\ writers.log[2].res = "ok"
    /\ writers.log[2].len = 2
    /\ writers.log[3].op = "resize"
    /\ writers.lock = "free"
    /\ pty_out = <<<<2, 1>>, <<2, 2>>>>
    /\ Len(chan) > 0
=============================================================================
